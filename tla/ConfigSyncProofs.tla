-------------------------- MODULE ConfigSyncProofs --------------------------
(***************************************************************************)
(* Proofs about ConfigSync, for every finite set of rows, every set of     *)
(* handlers and of bodies, and any number of requests and crashes.         *)
(***************************************************************************)
EXTENDS ConfigSync, FiniteSetTheorems, NumberLemmas

-----------------------------------------------------------------------------
(* The order of the listing. *)

Ascending(s, n) == \A i, j \in 1..n : i < j => s[i] < s[j]

\* Every finite set of numbers can be listed in ascending order: a smallest set
\* that cannot would, without its least element, be a smaller one.
LEMMA SortedExists ==
  ASSUME NEW S \in SUBSET Nat, IsFiniteSet(S)
  PROVE  \E s \in [1..Cardinality(S) -> S] : Ascending(s, Cardinality(S))
<1> DEFINE Listable(X) == \E s \in [1..Cardinality(X) -> X] : Ascending(s, Cardinality(X))
           Bad == {n \in Nat : \E X \in SUBSET Nat :
                                 IsFiniteSet(X) /\ Cardinality(X) = n /\ ~Listable(X)}
<1>1. SUFFICES ASSUME Bad # {}
               PROVE  FALSE
  <2>1. Cardinality(S) \in Nat
    BY FS_CardinalityType
  <2> HIDE DEF Listable
  <2>2. ~Listable(S) => Cardinality(S) \in Bad
    BY <2>1
  <2>3. Bad = {} => Listable(S)
    BY <2>2
  <2> QED BY <2>3 DEF Listable
<1>2. PICK n \in Bad : \A k \in Bad : n <= k
  <2>1. Bad \in SUBSET Nat
    OBVIOUS
  <2> HIDE DEF Bad
  <2> QED BY <1>1, <2>1, LeastElement
<1>3. PICK X \in SUBSET Nat : IsFiniteSet(X) /\ Cardinality(X) = n /\ ~Listable(X)
  BY <1>2
<1>4. n \in Nat
  BY <1>2
<1>5. X # {}
  <2>1. SUFFICES ASSUME X = {}
                 PROVE  FALSE
    OBVIOUS
  <2>2. Cardinality(X) = 0
    BY <2>1, FS_EmptySet
  <2> DEFINE s == [i \in {} |-> 0]
  <2>3. 1..0 = {}
    OBVIOUS
  <2>4. s \in [1..0 -> X] /\ Ascending(s, 0)
    BY <2>3 DEF Ascending
  <2> QED BY <1>3, <2>2, <2>4
<1>6. PICK m \in X : \A y \in X : m <= y
  BY <1>5, LeastElement
<1> DEFINE Y == X \ {m}
           k == n - 1
<1>7. Y \in SUBSET Nat /\ IsFiniteSet(Y) /\ Cardinality(Y) = k
  BY <1>3, <1>6, FS_RemoveElement
<1>8. k \in Nat /\ k < n
  BY <1>4, <1>7, FS_CardinalityType
<1>9. PICK g \in [1..k -> Y] : Ascending(g, k)
  <2>1. k \notin Bad
    <3> HIDE DEF Bad, k
    <3> QED BY <1>2, <1>4, <1>8
  <2>2. Listable(Y)
    <3> HIDE DEF Listable, Y, k
    <3> QED BY <1>7, <1>8, <2>1
  <2> QED BY <1>7, <2>2
<1> DEFINE s == [i \in 1..n |-> IF i = 1 THEN m ELSE g[i - 1]]
<1>10. \A i \in 1..n : i # 1 => i - 1 \in 1..k
  BY <1>4
<1>11. s \in [1..n -> X]
  BY <1>6, <1>9, <1>10
<1>12. Ascending(s, n)
  <2> SUFFICES ASSUME NEW i \in 1..n, NEW j \in 1..n, i < j
               PROVE  s[i] < s[j]
    BY DEF Ascending
  <2>1. j # 1 /\ j - 1 \in 1..k /\ s[j] = g[j - 1] /\ g[j - 1] \in Y
    BY <1>4, <1>9, <1>10
  <2>2. CASE i = 1
    <3>1. s[i] = m /\ m \in Nat /\ s[j] \in X /\ s[j] \in Nat /\ s[j] # m
      BY <1>4, <1>6, <2>1, <2>2
    <3> QED BY <1>6, <3>1
  <2>3. CASE i # 1
    <3>1. i - 1 \in 1..k /\ i - 1 < j - 1 /\ s[i] = g[i - 1]
      BY <1>4, <1>10, <2>3
    <3> QED BY <1>9, <2>1, <3>1 DEF Ascending
  <2> QED BY <2>2, <2>3
<1> QED BY <1>3, <1>11, <1>12

\* The listing holds every row once.
LEMMA SortedLists ==
  ASSUME NEW S \in SUBSET Nat, IsFiniteSet(S)
  PROVE  /\ Cardinality(S) \in Nat
         /\ Sorted(S) \in [1..Cardinality(S) -> S]
         /\ \A r \in S : \E i \in 1..Cardinality(S) : Sorted(S)[i] = r
<1> DEFINE n == Cardinality(S)
           s == Sorted(S)
<1>1. n \in Nat
  BY FS_CardinalityType
<1>2. s \in [1..n -> S] /\ Ascending(s, n)
  <2>1. \E t \in [1..n -> S] : \A i, j \in 1..n : i < j => t[i] < t[j]
    BY SortedExists DEF Ascending
  <2> QED BY <2>1 DEF Sorted, Ascending
<1>3. IsFiniteSet(1..n) /\ Cardinality(1..n) = n
  BY <1>1, FS_Interval
<1> HIDE DEF n, s
<1>4. s \in Injection(1..n, S)
  <2> SUFFICES ASSUME NEW i \in 1..n, NEW j \in 1..n, s[i] = s[j]
               PROVE  i = j
    BY <1>2 DEF Injection, IsInjective
  <2>1. s[i] \in Nat /\ s[j] \in Nat
    BY <1>2
  <2>2. ~(i < j) /\ ~(j < i)
    BY <1>2, <2>1 DEF Ascending
  <2> QED BY <1>1, <2>2
<1>5. s \in Surjection(1..n, S)
  BY <1>3, <1>4, FS_Injection DEF n
<1> QED BY <1>1, <1>2, <1>5 DEF Surjection, n, s

-----------------------------------------------------------------------------
(* The inductive invariant. *)

\* What may stand in the file: a camera with a detector id.
Entry == {e \in Camera \ {None} : e.camera # None}

Table == [Rows -> Camera \union {None}]

Stages == {"idle", "update", "list", "truncate", "write", "load", "apply"}

Request == [at : Stages, row : Nat, url : Urls \union {None},
            change : Changes \union {None}, content : Seq(Entry), solo : BOOLEAN]

Boot == [at : {"idle", "list", "truncate", "write"}, content : Seq(Entry)]

\* What the detector has loaded are entries; it has none while it is down.
Detector ==
  /\ running \subseteq Entry /\ workers \subseteq Entry
  /\ phase = "down" => running = {} /\ workers = {}

Typed ==
  /\ table \in Table /\ touched \subseteq Rows
  /\ file \in Seq(Entry)
  /\ phase \in {"down", "starting", "serving"}
  /\ Detector
  /\ req \in [Handlers -> Request]
  /\ boot \in Boot

\* The entries of the rows that no request has changed are all there.
Keeps(seq) == \A r \in Rows \ touched : table[r] \in Entry => table[r] \in ToSet(seq)

\* An update has what it needs; a list that was taken has the rows that no
\* request has changed, and so has the file the detector has read, if the API
\* wrote it when it started.
RequestOK(q) ==
  /\ q.at = "update" =>
       /\ q.row \in Rows /\ q.url \in Urls
       /\ q.change \in Changes /\ Valid(q.change)
  /\ q.at \in {"truncate", "write"} => Keeps(q.content)
  /\ q.at = "apply" => phase = "serving" /\ (Keeps(q.content) \/ "start" \in failed)

\* What a request that nobody has overlapped has in hand or in the file is the
\* table as it is.
AsListed(q) ==
  /\ q.at \in {"truncate", "write", "apply"} => q.content = Entries(table)
  /\ q.at = "write" => file = <<>>
  /\ q.at = "load" => file = Entries(table)

SoloOK(h) ==
  req[h].solo => /\ \A o \in Handlers \ {h} : req[o].at = "idle"
                 /\ AsListed(req[h])

\* Once the API has started, the file is its, unless it could not write it, until
\* a request empties it and fills it again.
FileOK == file = <<>> \/ Keeps(file) \/ "start" \in failed

\* While the API starts there are no requests.
BootOK ==
  /\ boot.at # "idle" => \A h \in Handlers : req[h].at = "idle"
  /\ boot.at \in {"truncate", "write"} => Keeps(boot.content)
  /\ boot.at = "idle" => FileOK

IInv ==
  /\ Typed
  /\ \A h \in Handlers : RequestOK(req[h]) /\ SoloOK(h)
  /\ BootOK

-----------------------------------------------------------------------------
(* Listing, writing, and changing the table. *)

\* The entries of a table are those of all its rows that have a detector id.
LEMMA EntriesOf ==
  ASSUME NEW t \in Table
  PROVE  /\ Entries(t) \in Seq(Entry)
         /\ \A r \in Rows : t[r] \in Entry => t[r] \in ToSet(Entries(t))
<1> DEFINE listed == {r \in Rows : t[r] # None /\ t[r].camera # None}
           n == Cardinality(listed)
           s == Sorted(listed)
           e == [i \in 1..n |-> t[s[i]]]
<1>1. listed \in SUBSET Nat /\ IsFiniteSet(listed)
  BY ConfigSyncAssumption, FS_Subset
<1>2. n \in Nat /\ s \in [1..n -> listed] /\ \A r \in listed : \E i \in 1..n : s[i] = r
  <2> HIDE DEF listed
  <2> QED BY <1>1, SortedLists
<1>3. Entries(t) = e
  BY DEF Entries
<1>4. \A r \in listed : t[r] \in Entry
  BY DEF Table, Entry
<1>5. \A r \in Rows : t[r] \in Entry => r \in listed
  BY DEF Entry
<1> HIDE DEF listed, n, s
<1>6. e \in [1..n -> Entry] /\ DOMAIN e = 1..n
  BY <1>2, <1>4
<1>7. \A r \in listed : t[r] \in ToSet(e)
  <2> TAKE r \in listed
  <2>1. PICK i \in 1..n : s[i] = r
    BY <1>2
  <2>2. e[i] = t[r] /\ i \in DOMAIN e
    BY <2>1
  <2> HIDE DEF e
  <2> QED BY <2>2 DEF ToSet
<1> HIDE DEF e
<1>8. e \in Seq(Entry)
  BY <1>2, <1>6
<1> QED BY <1>3, <1>5, <1>7, <1>8

\* What is written over a file has all of the new content.
LEMMA Overwritten ==
  ASSUME NEW T, NEW c \in Seq(T), NEW f \in Seq(T)
  PROVE  /\ Overwrite(c, f) \in Seq(T)
         /\ ToSet(c) \subseteq ToSet(Overwrite(c, f))
         /\ f = <<>> => Overwrite(c, f) = c
<1> DEFINE rest == SubSeq(f, Len(c) + 1, Len(f))
           o == c \o rest
<1>1. rest \in Seq(T)
  OBVIOUS
<1>2. f = <<>> => rest = <<>>
  OBVIOUS
<1>3. Overwrite(c, f) = o
  BY DEF Overwrite
<1> HIDE DEF rest
<1>4. /\ o \in Seq(T)
      /\ \A i \in 1..Len(c) : i \in DOMAIN o /\ o[i] = c[i]
      /\ DOMAIN c = 1..Len(c)
  BY <1>1
<1>5. rest = <<>> => o = c
  OBVIOUS
<1> HIDE DEF o
<1>6. ToSet(c) \subseteq ToSet(o)
  BY <1>4 DEF ToSet
<1> QED BY <1>2, <1>3, <1>4, <1>5, <1>6

\* What a step may do to the table.
TableStep ==
  /\ table' \in Table
  /\ touched \subseteq touched' /\ touched' \subseteq Rows
  /\ \A r \in Rows \ touched' : table'[r] = table[r]

\* A row that no request has changed stays where it was listed.
LEMMA KeepsOn ==
  ASSUME TableStep
  PROVE  \A seq : Keeps(seq) => Keeps(seq)'
BY DEF TableStep, Keeps

\* A table that has not changed keeps every row.
LEMMA SameTable ==
  ASSUME Typed, table' = table, touched' = touched
  PROVE  TableStep
BY DEF Typed, TableStep

\* A list just taken has every row.
LEMMA ListKeeps ==
  ASSUME Typed
  PROVE  Entries(table) \in Seq(Entry) /\ Keeps(Entries(table))
BY EntriesOf DEF Typed, Keeps

\* A row that is changed is the request's.
LEMMA Changed ==
  ASSUME Typed, NEW r \in Rows, NEW row \in Camera \union {None}, Change(r, row)
  PROVE  TableStep
BY DEF Typed, Change, TableStep, Table

\* A list with nothing in it.
LEMMA EmptyList ==
  \A T : <<>> \in Seq(T)
OBVIOUS

\* The record that nobody uses.
LEMMA IdleRequest ==
  /\ Idle \in Request /\ Idle.at = "idle" /\ Idle.solo = FALSE
  /\ RequestOK(Idle) /\ RequestOK(Idle)'
<1>1. PICK none : none = <<>> /\ none \in Seq(Entry)
  BY EmptyList
<1>2. Idle = [at |-> "idle", row |-> 1, url |-> None, change |-> None,
              content |-> none, solo |-> FALSE]
  BY <1>1 DEF Idle
<1>3. Idle \in Request
  BY <1>1, <1>2 DEF Request, Stages
<1>4. Idle.at = "idle" /\ Idle.solo = FALSE /\ Idle'.at = "idle"
  BY DEF Idle
<1> QED BY <1>3, <1>4 DEF RequestOK

-----------------------------------------------------------------------------
(* The steps of a request. *)

\* A request that is under way goes on to q; the others stay as they are.
LEMMA HandlerMoves ==
  ASSUME IInv, TableStep, NEW h \in Handlers, req[h].at # "idle",
         NEW q \in Request, req' = [req EXCEPT ![h] = q], boot' = boot,
         phase' = phase, Detector', failed \subseteq failed',
         file' \in Seq(Entry), file' = <<>> \/ file' = file \/ Keeps(file)',
         RequestOK(q)', q.solo => req[h].solo /\ AsListed(q)'
  PROVE  IInv'
<1>1. /\ Typed /\ BootOK
      /\ \A g \in Handlers : RequestOK(req[g]) /\ SoloOK(g)
  BY DEF IInv
<1>2. /\ req \in [Handlers -> Request] /\ req' \in [Handlers -> Request]
      /\ req'[h] = q /\ \A g \in Handlers \ {h} : req'[g] = req[g]
  BY <1>1 DEF Typed
<1>3. Typed'
  BY <1>1, <1>2 DEF Typed, TableStep
<1>4. boot.at = "idle"
  BY <1>1 DEF BootOK
<1>5. BootOK'
  <2>1. FileOK'
    <3>1. CASE file' = file
      <4>1. FileOK
        BY <1>1, <1>4 DEF BootOK
      <4> QED BY <3>1, <4>1, KeepsOn DEF FileOK
    <3> QED BY <3>1 DEF FileOK
  <2> QED BY <1>4, <2>1 DEF BootOK
<1>6. ASSUME NEW g \in Handlers
      PROVE  RequestOK(req[g])' /\ SoloOK(g)'
  <2>1. CASE g = h
    <3>1. RequestOK(req[g])'
      BY <1>2, <2>1 DEF RequestOK
    <3>2. req'[g].solo => \A o \in Handlers \ {g} : req'[o].at = "idle"
      BY <1>1, <1>2, <2>1 DEF SoloOK
    <3>3. req'[g].solo => AsListed(req[g])'
      BY <1>2, <2>1 DEF AsListed
    <3> QED BY <3>1, <3>2, <3>3 DEF SoloOK
  <2>2. CASE g # h
    <3>1. req'[g] = req[g]
      BY <1>2, <2>2
    <3>2. RequestOK(req[g])'
      BY <1>1, <3>1, KeepsOn DEF RequestOK
    <3>3. ~req'[g].solo
      BY <1>1, <2>2, <3>1 DEF SoloOK
    <3> QED BY <3>2, <3>3 DEF SoloOK
  <2> QED BY <2>1, <2>2
<1> QED BY <1>3, <1>5, <1>6 DEF IInv

\* A handler takes up a request, and no one is alone any more.
LEMMA BeginMoves ==
  ASSUME IInv, TableStep, NEW h \in Handlers, NEW r \in Request, Begin(h, r),
         r.at \in {"update", "list"}, RequestOK(r)',
         UNCHANGED <<file, phase, running, workers, failed, boot>>
  PROVE  IInv'
<1>1. /\ Typed /\ BootOK
      /\ \A g \in Handlers : RequestOK(req[g]) /\ SoloOK(g)
  BY DEF IInv
<1>2. PICK alone \in BOOLEAN : alone = \A o \in Handlers \ {h} : req[o].at = "idle"
  OBVIOUS
<1>3. /\ boot.at = "idle"
      /\ req' = [g \in Handlers |-> IF g = h THEN [r EXCEPT !.solo = alone]
                                              ELSE [req[g] EXCEPT !.solo = FALSE]]
  BY <1>2 DEF Begin, Serving
<1>4. req \in [Handlers -> Request]
  BY <1>1 DEF Typed
<1>5. /\ req'[h] = [r EXCEPT !.solo = alone]
      /\ req'[h] \in Request /\ req'[h].at = r.at /\ req'[h].solo = alone
      /\ req'[h].row = r.row /\ req'[h].url = r.url /\ req'[h].change = r.change
  BY <1>3 DEF Request
<1>6. \A g \in Handlers \ {h} :
        /\ req'[g] \in Request /\ req'[g].at = req[g].at /\ req'[g].solo = FALSE
        /\ req'[g].row = req[g].row /\ req'[g].url = req[g].url
        /\ req'[g].change = req[g].change /\ req'[g].content = req[g].content
  BY <1>3, <1>4 DEF Request
<1>7. req' \in [Handlers -> Request]
  <2>1. req' = [g \in Handlers |-> req'[g]]
    BY <1>3
  <2> QED BY <1>5, <1>6, <2>1
<1>8. Typed'
  BY <1>1, <1>7 DEF Typed, TableStep, Detector
<1>9. BootOK'
  BY <1>1, <1>3, KeepsOn DEF BootOK, FileOK
<1>10. ASSUME NEW g \in Handlers
       PROVE  RequestOK(req[g])' /\ SoloOK(g)'
  <2>1. CASE g = h
    <3>1. RequestOK(req[g])'
      BY <1>5, <2>1 DEF RequestOK
    <3>2. req'[g].solo => \A o \in Handlers \ {g} : req'[o].at = "idle"
      <4>1. alone => \A o \in Handlers \ {h} : req[o].at = "idle"
        BY <1>2
      <4>2. CASE alone
        BY <1>6, <2>1, <4>1, <4>2
      <4>3. CASE ~alone
        BY <1>5, <2>1, <4>3
      <4> QED BY <4>2, <4>3
    <3>3. AsListed(req[g])'
      BY <1>5, <2>1 DEF AsListed
    <3> QED BY <3>1, <3>2, <3>3 DEF SoloOK
  <2>2. CASE g # h
    BY <1>1, <1>6, <2>2, KeepsOn DEF RequestOK, SoloOK
  <2> QED BY <2>1, <2>2
<1> QED BY <1>8, <1>9, <1>10 DEF IInv

\* What an insert stores is a camera.
LEMMA StoredIsCamera ==
  ASSUME NEW i \in Inputs, Valid(i)
  PROVE  Stored(i) \in Camera
BY ConfigSyncAssumption DEF Stored, Valid, Or, Camera

\* What an update leaves is a camera.
LEMMA MergedIsCamera ==
  ASSUME NEW row \in Camera, NEW c \in Changes, Valid(c), NEW url \in Urls
  PROVE  Merged(row, c, url) \in Camera
BY ConfigSyncAssumption DEF Merged, Valid, Or, Camera

\* A create request stores its row and goes on to the listing.
LEMMA CreateKeeps ==
  ASSUME IInv, NEW h \in Handlers, Create(h)
  PROVE  IInv' /\ TableStep
<1>1. PICK r \in Rows, input \in Inputs :
        /\ Valid(input)
        /\ Begin(h, [Idle EXCEPT !.at = "list", !.row = r])
        /\ Change(r, Stored(input))
  BY DEF Create
<1>2. UNCHANGED <<file, phase, running, workers, failed, boot>>
  BY DEF Create, detector
<1>3. TableStep
  BY <1>1, StoredIsCamera, Changed DEF IInv
<1> DEFINE q == [Idle EXCEPT !.at = "list", !.row = r]
<1>4. q \in Request /\ q.at = "list"
  BY ConfigSyncAssumption, IdleRequest DEF Request, Stages
<1>5. RequestOK(q)'
  BY <1>4 DEF RequestOK, Idle
<1>6. Begin(h, q)
  BY <1>1
<1> HIDE DEF q
<1> QED BY <1>2, <1>3, <1>4, <1>5, <1>6, BeginMoves

\* A delete request removes its row and goes on to the listing.
LEMMA DeleteKeeps ==
  ASSUME IInv, NEW h \in Handlers, Delete(h)
  PROVE  IInv' /\ TableStep
<1>1. PICK r \in Rows :
        /\ Begin(h, [Idle EXCEPT !.at = "list", !.row = r])
        /\ Change(r, None)
  BY DEF Delete
<1>2. UNCHANGED <<file, phase, running, workers, failed, boot>>
  BY DEF Delete, detector
<1>3. TableStep
  BY <1>1, Changed DEF IInv
<1> DEFINE q == [Idle EXCEPT !.at = "list", !.row = r]
<1>4. q \in Request /\ q.at = "list"
  BY ConfigSyncAssumption, IdleRequest DEF Request, Stages
<1>5. RequestOK(q)'
  BY <1>4 DEF RequestOK, Idle
<1>6. Begin(h, q)
  BY <1>1
<1> HIDE DEF q
<1> QED BY <1>2, <1>3, <1>4, <1>5, <1>6, BeginMoves

\* An update request reads the row's URL, unless it brings one.
LEMMA BeginUpdateKeeps ==
  ASSUME IInv, NEW h \in Handlers, BeginUpdate(h)
  PROVE  IInv' /\ TableStep
<1>1. PICK r \in Rows, c \in Changes :
        /\ table[r] # None /\ Valid(c)
        /\ Begin(h, [Idle EXCEPT !.at = "update", !.row = r, !.change = c,
                                 !.url = Or(c.url, table[r].url)])
  BY DEF BeginUpdate
<1>2. UNCHANGED <<table, touched, file, phase, running, workers, failed, boot>>
  BY DEF BeginUpdate, detector
<1>3. TableStep
  BY <1>2, SameTable DEF IInv
<1>4. Or(c.url, table[r].url) \in Urls
  <2>1. table[r] \in Camera
    BY <1>1 DEF IInv, Typed, Table
  <2> QED BY <2>1, ConfigSyncAssumption DEF Or, Camera
<1>5. PICK u \in Urls : u = Or(c.url, table[r].url)
  BY <1>4
<1> DEFINE q == [Idle EXCEPT !.at = "update", !.row = r, !.change = c, !.url = u]
<1>6. q \in Request /\ q.at = "update" /\ q.row = r /\ q.change = c /\ q.url = u
  BY ConfigSyncAssumption, IdleRequest DEF Request, Stages
<1>7. Begin(h, q)
  BY <1>1, <1>5
<1> HIDE DEF q
<1>8. RequestOK(q)'
  BY <1>1, <1>6 DEF RequestOK
<1> QED BY <1>2, <1>3, <1>6, <1>7, <1>8, BeginMoves

\* A handler that returns leaves nothing behind.
LEMMA ReturnKeeps ==
  ASSUME IInv, TableStep, NEW h \in Handlers, req[h].at # "idle", Return(h), boot' = boot,
         phase' = phase, file' = file, Detector', failed' = failed
  PROVE  IInv'
<1>1. Idle \in Request /\ ~Idle.solo /\ RequestOK(Idle)'
  BY IdleRequest
<1>2. file' \in Seq(Entry)
  BY DEF IInv, Typed
<1>3. req' = [req EXCEPT ![h] = Idle]
  BY DEF Return
<1> QED BY <1>1, <1>2, <1>3, HandlerMoves

\* A request goes on to another stage with what it has.
LEMMA Goes ==
  ASSUME NEW h \in Handlers, req[h] \in Request, NEW at \in Stages, Goto(h, at)
  PROVE  \E q \in Request :
           /\ req' = [req EXCEPT ![h] = q]
           /\ q.at = at /\ q.solo = req[h].solo /\ q.content = req[h].content
<1> DEFINE q == [req[h] EXCEPT !.at = at]
<1>1. req' = [req EXCEPT ![h] = q]
  BY DEF Goto
<1>2. q \in Request /\ q.at = at /\ q.solo = req[h].solo /\ q.content = req[h].content
  BY DEF Request
<1> HIDE DEF q
<1> QED BY <1>1, <1>2

\* The row is changed, when it is still there, and listed next.
LEMMA UpdateKeeps ==
  ASSUME IInv, NEW h \in Handlers, Update(h)
  PROVE  IInv' /\ TableStep
<1>1. /\ req[h].at = "update" /\ req[h] \in Request
      /\ UNCHANGED <<file, failed, phase, running, workers, boot>>
      /\ Detector'
      /\ file \in Seq(Entry)
  BY DEF Update, IInv, Typed, detector, Detector
<1> DEFINE r == req[h].row
<1>2. CASE table[r] = None
  <2>1. Return(h) /\ table' = table /\ touched' = touched
    BY <1>2 DEF Update
  <2>2. TableStep
    BY <2>1, SameTable DEF IInv
  <2> QED BY <1>1, <2>1, <2>2, ReturnKeeps
<1>3. CASE table[r] # None
  <2>1. /\ Goto(h, "list")
        /\ Change(r, Merged(table[r], req[h].change, req[h].url))
    BY <1>3 DEF Update
  <2>2. r \in Rows /\ req[h].url \in Urls /\ req[h].change \in Changes /\ Valid(req[h].change)
    BY <1>1 DEF IInv, RequestOK
  <2>3. table[r] \in Camera
    BY <1>3, <2>2 DEF IInv, Typed, Table
  <2>4. Merged(table[r], req[h].change, req[h].url) \in Camera
    BY <2>2, <2>3, MergedIsCamera
  <2>5. TableStep
    BY <2>1, <2>2, <2>4, Changed DEF IInv
  <2>6. PICK q \in Request :
          /\ req' = [req EXCEPT ![h] = q]
          /\ q.at = "list" /\ q.solo = req[h].solo /\ q.content = req[h].content
    BY <1>1, <2>1, Goes DEF Stages
  <2>7. RequestOK(q)' /\ AsListed(q)'
    BY <2>6 DEF RequestOK, AsListed
  <2> QED BY <1>1, <2>5, <2>6, <2>7, HandlerMoves
<1> QED BY <1>2, <1>3

\* The list that is taken is the table's.
LEMMA ListingKeeps ==
  ASSUME IInv, NEW h \in Handlers, List(h)
  PROVE  IInv' /\ TableStep
<1>1. /\ req[h].at = "list" /\ req[h] \in Request
      /\ UNCHANGED <<table, touched, file, failed, phase, running, workers, boot>>
      /\ Detector'
      /\ file \in Seq(Entry)
  BY DEF List, IInv, Typed, detector, Detector
<1>2. TableStep
  BY <1>1, SameTable DEF IInv
<1>3. PICK c : c = Entries(table) /\ c \in Seq(Entry) /\ Keeps(c)
  BY ListKeeps DEF IInv
<1>4. c = Entries(table)' /\ Keeps(c)'
  BY <1>1, <1>2, <1>3, KeepsOn DEF Entries
<1> DEFINE q == [req[h] EXCEPT !.at = "truncate", !.content = c]
<1>5. PICK p : p = q
  OBVIOUS
<1>6. req' = [req EXCEPT ![h] = q]
  BY <1>3 DEF List
<1>7. q \in Request /\ q.at = "truncate" /\ q.solo = req[h].solo /\ q.content = c
  BY <1>1, <1>3 DEF Request, Stages
<1> HIDE DEF q
<1>8. RequestOK(p)' /\ AsListed(p)'
  BY <1>4, <1>5, <1>7 DEF RequestOK, AsListed
<1> QED BY <1>1, <1>2, <1>5, <1>6, <1>7, <1>8, HandlerMoves

\* The file is emptied; or it cannot be, and the reload reads what is there.
LEMMA TruncateKeeps ==
  ASSUME IInv, NEW h \in Handlers, Truncate(h)
  PROVE  IInv' /\ TableStep
<1>1. /\ req[h].at = "truncate" /\ req[h] \in Request
      /\ UNCHANGED <<table, touched, failed, phase, running, workers, boot>>
      /\ Detector'
      /\ file \in Seq(Entry)
  BY DEF Truncate, IInv, Typed, detector, Detector
<1>2. TableStep
  BY <1>1, SameTable DEF IInv
<1>3. CASE file' = <<>> /\ Goto(h, "write")
  <2>1. PICK q \in Request :
          /\ req' = [req EXCEPT ![h] = q]
          /\ q.at = "write" /\ q.solo = req[h].solo /\ q.content = req[h].content
    BY <1>1, <1>3, Goes DEF Stages
  <2>2. Keeps(q.content)'
    BY <1>1, <1>2, <2>1, KeepsOn DEF IInv, RequestOK
  <2>3. RequestOK(q)'
    BY <2>1, <2>2 DEF RequestOK
  <2>4. q.solo => AsListed(q)'
    <3>1. Entries(table)' = Entries(table)
      BY <1>1 DEF Entries
    <3>2. q.solo => q.content = Entries(table)
      BY <1>1, <2>1 DEF IInv, SoloOK, AsListed
    <3> QED BY <1>3, <2>1, <3>1, <3>2 DEF AsListed
  <2>5. file' \in Seq(Entry) /\ file' = <<>>
    BY <1>3, EmptyList
  <2> QED BY <1>1, <1>2, <2>1, <2>3, <2>4, <2>5, HandlerMoves
<1>4. CASE /\ file' = file
           /\ req' = [req EXCEPT ![h].at = "load", ![h].solo = FALSE]
  <2>1. PICK q : q = [req[h] EXCEPT !.at = "load", !.solo = FALSE]
    OBVIOUS
  <2>2. req' = [req EXCEPT ![h] = q]
    BY <1>4, <2>1
  <2>3. q \in Request /\ q.at = "load" /\ ~q.solo
    BY <1>1, <2>1 DEF Request, Stages
  <2>4. RequestOK(q)'
    BY <2>3 DEF RequestOK
  <2> QED BY <1>1, <1>2, <1>4, <2>2, <2>3, <2>4, HandlerMoves
<1> QED BY <1>3, <1>4 DEF Truncate

\* The list is written, over what another request may have written meanwhile; or
\* it is not, and the file stays as it is.
LEMMA WriteKeeps ==
  ASSUME IInv, NEW h \in Handlers, Write(h)
  PROVE  IInv' /\ TableStep
<1>1. /\ req[h].at = "write" /\ req[h] \in Request
      /\ UNCHANGED <<table, touched, phase, running, workers, boot>>
      /\ Detector' /\ file \in Seq(Entry)
  BY DEF Write, IInv, Typed, detector, Detector
<1>2. TableStep
  BY <1>1, SameTable DEF IInv
<1>3. CASE /\ file' = Overwrite(req[h].content, file)
           /\ Goto(h, "load") /\ failed' = failed
  <2>1. PICK q \in Request :
          /\ req' = [req EXCEPT ![h] = q]
          /\ q.at = "load" /\ q.solo = req[h].solo /\ q.content = req[h].content
    BY <1>1, <1>3, Goes DEF Stages
  <2>2. req[h].content \in Seq(Entry)
    BY <1>1 DEF Request
  <2>3. /\ file' \in Seq(Entry) /\ ToSet(req[h].content) \subseteq ToSet(file')
        /\ file = <<>> => file' = req[h].content
    BY <1>1, <1>3, <2>2, Overwritten
  <2>4. Keeps(file)'
    <3>1. Keeps(req[h].content)
      BY <1>1 DEF IInv, RequestOK
    <3> QED BY <1>1, <2>3, <3>1 DEF Keeps
  <2>5. RequestOK(q)'
    BY <2>1 DEF RequestOK
  <2>6. q.solo => AsListed(q)'
    <3>1. Entries(table)' = Entries(table)
      BY <1>1 DEF Entries
    <3>2. q.solo => req[h].content = Entries(table) /\ file = <<>>
      BY <1>1, <2>1 DEF IInv, SoloOK, AsListed
    <3> QED BY <2>1, <2>3, <3>1, <3>2 DEF AsListed
  <2> QED BY <1>1, <1>2, <1>3, <2>1, <2>3, <2>4, <2>5, <2>6, HandlerMoves
<1>4. CASE /\ failed' = failed \union {"write"} /\ file' = file
           /\ req' = [req EXCEPT ![h].at = "load", ![h].solo = FALSE]
  <2>1. PICK q : q = [req[h] EXCEPT !.at = "load", !.solo = FALSE]
    OBVIOUS
  <2>2. req' = [req EXCEPT ![h] = q]
    BY <1>4, <2>1
  <2>3. q \in Request /\ q.at = "load" /\ ~q.solo
    BY <1>1, <2>1 DEF Request, Stages
  <2>4. RequestOK(q)'
    BY <2>3 DEF RequestOK
  <2> QED BY <1>1, <1>2, <1>4, <2>2, <2>3, <2>4, HandlerMoves
<1> QED BY <1>3, <1>4 DEF Write

\* What the detector accepts is not empty: it has every row that no request has
\* changed, if the API wrote the file when it started.
LEMMA LoadKeeps ==
  ASSUME IInv, NEW h \in Handlers, Load(h)
  PROVE  IInv' /\ TableStep
<1>1. /\ req[h].at = "load" /\ req[h] \in Request
      /\ UNCHANGED <<table, touched, file, failed, phase, running, workers, boot>>
      /\ Detector'
      /\ file \in Seq(Entry)
      /\ boot.at = "idle"
  BY DEF Load, IInv, Typed, detector, Detector, BootOK
<1>2. TableStep
  BY <1>1, SameTable DEF IInv
<1>3. CASE Return(h)
  BY <1>1, <1>2, <1>3, ReturnKeeps
<1>4. CASE /\ Accepts(file) /\ phase = "serving"
           /\ req' = [req EXCEPT ![h].at = "apply", ![h].content = file]
  <2>1. PICK q : q = [req[h] EXCEPT !.at = "apply", !.content = file]
    OBVIOUS
  <2>2. req' = [req EXCEPT ![h] = q]
    BY <1>4, <2>1
  <2>3. q \in Request /\ q.at = "apply" /\ q.solo = req[h].solo /\ q.content = file
    BY <1>1, <2>1 DEF Request, Stages
  <2>4. Keeps(file) \/ "start" \in failed
    BY <1>1, <1>4 DEF IInv, BootOK, FileOK, Accepts
  <2>5. RequestOK(q)'
    BY <1>1, <1>2, <1>4, <2>3, <2>4, KeepsOn DEF RequestOK
  <2>6. q.solo => AsListed(q)'
    <3>1. Entries(table)' = Entries(table)
      BY <1>1 DEF Entries
    <3>2. q.solo => file = Entries(table)
      BY <1>1, <2>3 DEF IInv, SoloOK, AsListed
    <3> QED BY <2>3, <3>1, <3>2 DEF AsListed
  <2> QED BY <1>1, <1>2, <2>2, <2>3, <2>4, <2>5, <2>6, HandlerMoves
<1> QED BY <1>3, <1>4 DEF Load

\* The detector runs what the request has read.
LEMMA ApplyKeeps ==
  ASSUME IInv, NEW h \in Handlers, Apply(h)
  PROVE  /\ IInv' /\ TableStep
         /\ running' = ToSet(req[h].content)
         /\ workers' = Reloaded(ToSet(req[h].content))
         /\ Keeps(req[h].content) \/ "start" \in failed
<1>1. /\ req[h].at = "apply" /\ req[h] \in Request
      /\ UNCHANGED <<table, touched, file, phase, failed, boot>>
      /\ running' = ToSet(req[h].content) /\ Return(h)
      /\ workers' = Reloaded(ToSet(req[h].content))
      /\ workers \in SUBSET Entry
  BY DEF Apply, IInv, Typed, Detector
<1>2. TableStep
  BY <1>1, SameTable DEF IInv
<1>3. phase = "serving" /\ (Keeps(req[h].content) \/ "start" \in failed)
  BY <1>1 DEF IInv, RequestOK
<1>4. Detector'
  <2>1. req[h].content \in Seq(Entry)
    BY <1>1 DEF Request
  <2>2. ToSet(req[h].content) \subseteq Entry
    BY <2>1 DEF ToSet
  <2> QED BY <1>1, <1>3, <2>2 DEF Detector, Reloaded
<1> QED BY <1>1, <1>2, <1>3, <1>4, ReturnKeeps

\* A handler that is dropped leaves what it has done.
LEMMA DropKeeps ==
  ASSUME IInv, NEW h \in Handlers, Drop(h)
  PROVE  IInv' /\ TableStep
<1>1. /\ req[h].at # "idle" /\ Return(h)
      /\ UNCHANGED <<table, touched, file, failed, phase, running, workers, boot>>
      /\ Detector'
  BY DEF Drop, IInv, Typed, detector, Detector
<1>2. TableStep
  BY <1>1, SameTable DEF IInv
<1> QED BY <1>1, <1>2, ReturnKeeps

-----------------------------------------------------------------------------
(* Start and crash of the services. *)

\* The API writes the file anew before it serves, or goes without.
LEMMA BootKeeps ==
  ASSUME IInv, BootStep
  PROVE  IInv' /\ TableStep
<1>1. /\ Typed /\ BootOK
      /\ \A g \in Handlers : RequestOK(req[g]) /\ SoloOK(g)
  BY DEF IInv
<1>2. /\ UNCHANGED <<table, touched, phase, running, workers, req>>
      /\ boot.at # "idle" /\ boot \in Boot /\ Detector'
  BY <1>1 DEF BootStep, Typed, detector, Detector
<1>3. TableStep
  BY <1>1, <1>2, SameTable
<1>4. \A h \in Handlers : req'[h] = req[h] /\ req[h].at = "idle"
  BY <1>1, <1>2 DEF BootOK
<1>5. \A h \in Handlers : RequestOK(req[h])' /\ SoloOK(h)'
  BY <1>1, <1>4 DEF RequestOK, SoloOK, AsListed
<1>6. file' \in Seq(Entry) /\ boot' \in Boot /\ BootOK'
  <2>1. CASE /\ boot.at = "list" /\ file' = file
             /\ boot' = [at |-> "truncate", content |-> Entries(table)]
    <3>1. PICK c : c = Entries(table) /\ c \in Seq(Entry) /\ Keeps(c)
      BY <1>1, ListKeeps
    <3>2. boot' = [at |-> "truncate", content |-> c] /\ Keeps(c)'
      BY <1>3, <2>1, <3>1, KeepsOn
    <3>3. boot' \in Boot /\ boot'.at = "truncate" /\ boot'.content = c
      BY <3>1, <3>2 DEF Boot
    <3> QED BY <1>1, <1>4, <2>1, <3>2, <3>3 DEF BootOK, Typed
  <2>2. CASE /\ boot.at = "truncate" /\ file' = <<>>
             /\ boot' = [boot EXCEPT !.at = "write"]
    <3>1. boot' \in Boot /\ boot'.at = "write" /\ boot'.content = boot.content
      BY <1>2, <2>2 DEF Boot
    <3>2. Keeps(boot.content)'
      BY <1>1, <1>3, <2>2, <3>1, KeepsOn DEF BootOK, Keeps
    <3> QED BY <1>4, <2>2, <3>1, <3>2, EmptyList DEF BootOK
  <2>3. CASE /\ boot.at = "write" /\ file' = boot.content
             /\ boot' = [at |-> "idle", content |-> <<>>]
    <3>1. PICK none : none = <<>> /\ none \in Seq(Entry)
      BY EmptyList
    <3>2. boot' = [at |-> "idle", content |-> none]
      BY <2>3, <3>1
    <3>3. boot' \in Boot /\ boot'.at = "idle"
      BY <3>1, <3>2 DEF Boot
    <3>4. Keeps(file)'
      BY <1>1, <1>2, <2>3 DEF BootOK, Keeps
    <3>5. file' \in Seq(Entry)
      BY <1>2, <2>3 DEF Boot
    <3> QED BY <1>4, <3>3, <3>4, <3>5 DEF BootOK, FileOK
  <2>4. CASE /\ failed' = failed \union {"start"} /\ file' = file
             /\ boot' = [at |-> "idle", content |-> <<>>]
    <3>1. PICK none : none = <<>> /\ none \in Seq(Entry)
      BY EmptyList
    <3>2. boot' = [at |-> "idle", content |-> none]
      BY <2>4, <3>1
    <3>3. boot' \in Boot /\ boot'.at = "idle"
      BY <3>1, <3>2 DEF Boot
    <3>4. FileOK'
      BY <2>4 DEF FileOK
    <3>5. file' \in Seq(Entry)
      BY <1>1, <2>4 DEF Typed
    <3> QED BY <3>3, <3>4, <3>5 DEF BootOK
  <2> QED BY <2>1, <2>2, <2>3, <2>4 DEF BootStep
<1>7. Typed'
  BY <1>1, <1>2, <1>6 DEF Typed
<1> QED BY <1>3, <1>5, <1>6, <1>7 DEF IInv

\* A crash of the API ends every request and begins with its start-up.
LEMMA ApiCrashKeeps ==
  ASSUME IInv, ApiCrash
  PROVE  IInv' /\ TableStep
<1>1. Typed
  BY DEF IInv
<1>2. /\ req' = [h \in Handlers |-> Idle]
      /\ boot' = [at |-> "list", content |-> <<>>]
      /\ UNCHANGED <<table, file, phase, running, workers, touched>>
  BY DEF ApiCrash, detector
<1>3. Idle \in Request /\ Idle.at = "idle" /\ ~Idle.solo /\ RequestOK(Idle)'
  BY IdleRequest
<1>4. PICK none : none = <<>> /\ none \in Seq(Entry)
  BY EmptyList
<1>5. boot' = [at |-> "list", content |-> none]
  BY <1>2, <1>4
<1>6. boot' \in Boot /\ boot'.at = "list"
  BY <1>4, <1>5 DEF Boot
<1>7. req' \in [Handlers -> Request] /\ \A h \in Handlers : req'[h] = Idle
  BY <1>2, <1>3
<1>8. Typed'
  BY <1>1, <1>2, <1>6, <1>7 DEF Typed, Detector
<1>9. BootOK'
  BY <1>3, <1>6, <1>7 DEF BootOK
<1>10. \A h \in Handlers : RequestOK(req[h])' /\ SoloOK(h)'
  BY <1>3, <1>7 DEF RequestOK, SoloOK
<1>11. TableStep
  BY <1>1, <1>2, SameTable
<1> QED BY <1>8, <1>9, <1>10, <1>11 DEF IInv

\* The detector starts with the file; nothing runs before.
LEMMA DetectorKeeps ==
  ASSUME IInv, DetectorStart \/ DetectorServes
  PROVE  IInv' /\ TableStep
<1>1. /\ Typed /\ BootOK
      /\ \A g \in Handlers : RequestOK(req[g]) /\ SoloOK(g)
  BY DEF IInv
<1>2. /\ UNCHANGED <<table, file, req, boot, touched, failed>>
      /\ phase # "serving" /\ phase' \in {"starting", "serving"}
      /\ running' \in {running, ToSet(file)} /\ workers' \in {workers, ToSet(file)}
  BY DEF DetectorStart, DetectorServes, api
<1>3. ToSet(file) \subseteq Entry
  <2>1. file \in Seq(Entry)
    BY <1>1 DEF Typed
  <2> QED BY <2>1 DEF ToSet
<1>4. Typed'
  BY <1>1, <1>2, <1>3 DEF Typed, Detector
<1>5. TableStep
  BY <1>1, <1>2, SameTable
<1>6. BootOK'
  BY <1>1, <1>2, <1>5, KeepsOn DEF BootOK, FileOK
<1>7. \A h \in Handlers : RequestOK(req[h])' /\ SoloOK(h)'
  BY <1>1, <1>2, <1>5, KeepsOn DEF RequestOK, SoloOK, AsListed, Entries
<1> QED BY <1>4, <1>5, <1>6, <1>7 DEF IInv

\* A crash of the detector ends the calls it was answering.
LEMMA DetectorCrashKeeps ==
  ASSUME IInv, DetectorCrash
  PROVE  IInv' /\ TableStep
<1>1. /\ Typed /\ BootOK
      /\ \A g \in Handlers : RequestOK(req[g]) /\ SoloOK(g)
  BY DEF IInv
<1>2. /\ UNCHANGED <<table, file, boot, touched, failed>>
      /\ phase' = "down" /\ running' = {} /\ workers' = {}
      /\ req' = [h \in Handlers |-> IF req[h].at = "apply" THEN Idle ELSE req[h]]
  BY DEF DetectorCrash
<1>3. Idle \in Request /\ Idle.at = "idle" /\ ~Idle.solo /\ RequestOK(Idle)'
  BY IdleRequest
<1>4. \A h \in Handlers :
        \/ req'[h] = Idle
        \/ req'[h] = req[h] /\ req[h].at # "apply"
  BY <1>2
<1>5. req' \in [Handlers -> Request]
  BY <1>1, <1>2, <1>3 DEF Typed
<1>6. TableStep
  BY <1>1, <1>2, SameTable
<1>7. Typed'
  BY <1>1, <1>2, <1>5 DEF Typed, Detector
<1>8. BootOK'
  BY <1>1, <1>2, <1>3, <1>4, <1>6, KeepsOn DEF BootOK, FileOK
<1>9. ASSUME NEW h \in Handlers
      PROVE  RequestOK(req[h])' /\ SoloOK(h)'
  <2>1. CASE req'[h] = Idle
    BY <1>3, <2>1 DEF RequestOK, SoloOK
  <2>2. CASE req'[h] = req[h] /\ req[h].at # "apply"
    <3>1. RequestOK(req[h])'
      BY <1>1, <1>6, <2>2, KeepsOn DEF RequestOK
    <3>2. Entries(table)' = Entries(table)
      BY <1>2 DEF Entries
    <3>3. SoloOK(h)'
      BY <1>1, <1>2, <1>3, <1>4, <2>2, <3>2 DEF SoloOK, AsListed
    <3> QED BY <3>1, <3>3
  <2> QED BY <1>4, <2>1, <2>2
<1> QED BY <1>6, <1>7, <1>8, <1>9 DEF IInv

-----------------------------------------------------------------------------
(* The theorems. *)

\* At the start the file is the listing of some table, and nobody uses it.
LEMMA InitHolds ==
  ASSUME Init
  PROVE  IInv
<1>1. /\ table \in Tables
      /\ phase = "down" /\ running = {} /\ workers = {} /\ touched = {}
      /\ req = [h \in Handlers |-> Idle]
      /\ boot = [at |-> "list", content |-> <<>>]
  BY DEF Init
<1>2. PICK t \in Tables : file = Entries(t)
  BY DEF Init
<1>3. Tables \subseteq Table
  BY StoredIsCamera DEF Tables, Table
<1>4. table \in Table /\ file \in Seq(Entry)
  BY <1>1, <1>2, <1>3, EntriesOf
<1>5. PICK none : none = <<>> /\ none \in Seq(Entry)
  BY EmptyList
<1>6. boot = [at |-> "list", content |-> none]
  BY <1>1, <1>5
<1>7. boot \in Boot /\ boot.at = "list"
  BY <1>5, <1>6 DEF Boot
<1>8. Idle \in Request /\ Idle.at = "idle" /\ ~Idle.solo /\ RequestOK(Idle)
  BY IdleRequest
<1>9. req \in [Handlers -> Request] /\ \A h \in Handlers : req[h] = Idle
  BY <1>1, <1>8
<1>10. Typed
  BY <1>1, <1>4, <1>7, <1>9 DEF Typed, Detector
<1>11. BootOK /\ \A h \in Handlers : RequestOK(req[h]) /\ SoloOK(h)
  BY <1>7, <1>8, <1>9 DEF BootOK, SoloOK
<1> QED BY <1>10, <1>11 DEF IInv

\* Every step keeps the invariant, and changes only rows that are then touched.
LEMMA StepKeeps ==
  ASSUME IInv, [Next]_vars
  PROVE  IInv' /\ TableStep
<1>1. CASE \E h \in Handlers :
             Create(h) \/ BeginUpdate(h) \/ Delete(h) \/ HandlerStep(h) \/ Drop(h)
  <2>1. PICK h \in Handlers :
          Create(h) \/ BeginUpdate(h) \/ Delete(h) \/ HandlerStep(h) \/ Drop(h)
    BY <1>1
  <2>2. CASE Create(h) \/ BeginUpdate(h) \/ Delete(h) \/ Drop(h)
    BY <2>2, CreateKeeps, BeginUpdateKeeps, DeleteKeeps, DropKeeps
  <2>3. CASE HandlerStep(h)
    BY <2>3, UpdateKeeps, ListingKeeps, TruncateKeeps, WriteKeeps, LoadKeeps, ApplyKeeps
       DEF HandlerStep
  <2> QED BY <2>1, <2>2, <2>3
<1>2. CASE BootStep \/ ApiCrash
  BY <1>2, BootKeeps, ApiCrashKeeps
<1>3. CASE DetectorStart \/ DetectorServes \/ DetectorCrash
  BY <1>3, DetectorKeeps, DetectorCrashKeeps
<1>4. CASE UNCHANGED vars
  <2>1. UNCHANGED <<table, file, phase, running, workers, req, boot, touched, failed>>
    BY <1>4 DEF vars, api, detector
  <2>2. TableStep
    BY <2>1, SameTable DEF IInv
  <2>3. Typed' /\ BootOK'
    BY <2>1, <2>2, KeepsOn DEF IInv, Typed, Detector, BootOK, FileOK
  <2>4. \A h \in Handlers : RequestOK(req[h])' /\ SoloOK(h)'
    BY <2>1, <2>2, KeepsOn DEF IInv, RequestOK, SoloOK, AsListed, Entries
  <2> QED BY <2>2, <2>3, <2>4 DEF IInv
<1> QED BY <1>1, <1>2, <1>3, <1>4 DEF Next

\* Whatever overlaps, fails and crashes, every list under way has the entries of
\* the rows that no request has changed, and so has every file that is not empty
\* once the API has written it at its start; a request nobody overlapped has the
\* table's.
THEOREM SyncInvariant == Spec => []IInv
<1>1. Init => IInv
  BY InitHolds
<1>2. IInv /\ [Next]_vars => IInv'
  BY StepKeeps
<1> QED BY <1>1, <1>2, PTL DEF Spec

\* What fails is a start or a write.
LEMMA FailuresNamed == Spec => [](failed \subseteq {"start", "write"})
<1>1. Init => failed \subseteq {"start", "write"}
  BY DEF Init
<1>2. failed \subseteq {"start", "write"} /\ [Next]_vars => (failed \subseteq {"start", "write"})'
  BY DEF Next, vars, api, HandlerStep, Create, BeginUpdate, Delete, Drop, Update, List,
     Truncate, Write, Load, Apply, BootStep, ApiCrash, DetectorStart, DetectorServes,
     DetectorCrash
<1> QED BY <1>1, <1>2, PTL DEF Spec

\* Every variable has its type: what is written, listed and run are cameras.
THEOREM SyncTypeCorrect == Spec => []TypeOK
<1>1. IInv /\ failed \subseteq {"start", "write"} => TypeOK
  <2> SUFFICES ASSUME IInv, failed \subseteq {"start", "write"}
               PROVE  TypeOK
    OBVIOUS
  <2>1. Typed
    BY DEF IInv
  <2>2. Entry \subseteq Camera /\ \A s \in Seq(Entry) : ToSet(s) \subseteq Entry
    BY DEF Entry, ToSet
  <2>3. /\ ToSet(file) \subseteq Camera /\ running \union workers \subseteq Camera
        /\ phase = "down" => running \union workers = {}
    BY <2>1, <2>2 DEF Typed, Detector
  <2>4. \A h \in Handlers : req[h].at \in Stages /\ ToSet(req[h].content) \subseteq Camera
    BY <2>1, <2>2 DEF Typed, Request
  <2> QED BY <2>1, <2>3, <2>4 DEF TypeOK, Typed, Table, Boot, Stages
<1> QED BY <1>1, SyncInvariant, FailuresNamed, PTL

\* A reload leaves workers for exactly the cameras it read, and starts those that
\* are new with what it read.
LEMMA ReloadedWorkers ==
  ASSUME NEW entries
  PROVE  /\ Ids(Reloaded(entries)) = Ids(entries)
         /\ Reloaded(entries) \ workers \subseteq entries
BY DEF Ids, Reloaded

\* A request that nobody overlapped and whose file was written leaves the detector
\* with the settings of the table and with workers for exactly its cameras; those
\* it starts have the table's entries (cameras.rs:276, manager.rs:277).
THEOREM LoneRequestSynchronises == Spec => AloneSynchronises
<1>1. IInv => \A h \in Handlers : (Apply(h) /\ req[h].solo) =>
                LET listed == ToSet(Entries(table)) IN
                /\ running' = listed
                /\ Ids(workers') = Ids(listed)
                /\ workers' \ workers \subseteq listed
  <2> SUFFICES ASSUME IInv, NEW h \in Handlers, Apply(h), req[h].solo
               PROVE  /\ running' = ToSet(Entries(table))
                      /\ Ids(workers') = Ids(ToSet(Entries(table)))
                      /\ workers' \ workers \subseteq ToSet(Entries(table))
    OBVIOUS
  <2>1. PICK listed : listed = ToSet(Entries(table))
    OBVIOUS
  <2>2. running' = listed /\ workers' = Reloaded(listed)
    BY <2>1 DEF IInv, SoloOK, AsListed, Apply
  <2> QED BY <2>1, <2>2, ReloadedWorkers
<1> QED BY <1>1, SyncInvariant, PTL DEF AloneSynchronises

\* A reload takes no camera from the detector whose row no request has changed,
\* and leaves its worker as it is.
LEMMA UntouchedStep ==
  ASSUME IInv, [Next]_vars, NEW r \in Rows \ touched', Serves(r),
         phase' # "down", "start" \notin failed
  PROVE  Serves(r)' /\ StatusOf(r)' # "not_found"
<1>1. TableStep /\ Detector
  BY StepKeeps DEF IInv, Typed
<1>2. /\ r \in Rows \ touched /\ table'[r] = table[r] /\ phase # "down"
      /\ table[r] \in Entry /\ table[r] \in running /\ table[r] \in workers
  BY <1>1 DEF TableStep, Detector, Serves
<1>3. table[r] \in running' /\ table[r] \in workers'
  <2>1. ASSUME NEW h \in Handlers, Apply(h)
        PROVE  table[r] \in running' /\ table[r] \in workers'
    <3>1. /\ running' = ToSet(req[h].content) /\ workers' = Reloaded(running')
          /\ Keeps(req[h].content)
      BY <2>1, ApplyKeeps
    <3>2. table[r] \in running'
      BY <1>2, <3>1 DEF Keeps
    <3> QED BY <1>2, <3>1, <3>2 DEF Reloaded
  <2>2. CASE running' = running /\ workers' = workers
    BY <1>2, <2>2
  <2>3. CASE DetectorStart \/ DetectorCrash
    BY <1>2, <2>3 DEF DetectorStart, DetectorCrash
  <2> QED BY <2>1, <2>2, <2>3 DEF Next, vars, detector, HandlerStep, Create, BeginUpdate,
             Delete, Drop, Update, List, Truncate, Write, Load, BootStep, ApiCrash,
             DetectorServes
<1>4. Serves(r)' /\ StatusOf(r)' # "not_found"
  BY <1>2, <1>3 DEF StatusOf, Serves
<1> QED BY <1>4

\* However requests, crashes and half-written files fall together, a reload
\* never takes a camera from the detector whose row no request has changed, nor
\* touches its worker, if the API wrote the file when it was last started.
THEOREM UntouchedStay == Spec => UntouchedKeepRunning
<1>1. IInv /\ [Next]_vars =>
        \A r \in Rows \ touched' :
          (Serves(r) /\ phase' # "down" /\ "start" \notin failed)
             => Serves(r)' /\ StatusOf(r)' # "not_found"
  BY UntouchedStep
<1> QED BY <1>1, SyncInvariant, PTL DEF Spec, UntouchedKeepRunning
=============================================================================
