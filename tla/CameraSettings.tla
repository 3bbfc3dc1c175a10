--------------------------- MODULE CameraSettings ---------------------------
(***************************************************************************)
(* The camera list on its way from the API's table through cameras.yaml to *)
(* the detector's configuration: camera_sync.rs writes it, config/loader.rs*)
(* and the serde defaults of config/models.rs read it back, next to        *)
(* settings.yaml, and config/validation.rs accepts it or not.              *)
(*                                                                         *)
(* A text is a sequence of pieces: literal ones, $NAME and                 *)
(* ${NAME:-default}.  Fields that are treated alike are represented by one *)
(* of them: the thresholds by conf, in hundredths, the two numbers of hits *)
(* by hits, the cool-down by imgsz, the other texts by url.  The cameras   *)
(* of a file are a function from the rows they come from.                  *)
(***************************************************************************)
EXTENDS Integers, Sequences, SequencesExt

CONSTANTS Absent,    \* a section, an id or a path that is not there
          LongIds    \* texts of more than 50 characters

Literal(text) == [type |-> "literal", name |-> text, default |-> <<>>]
Variable(name) == [type |-> "simple", name |-> name, default |-> <<>>]
Braced(name, default) == [type |-> "braced", name |-> name, default |-> default]

Texts == {"id", "url"}
Optional == {"enabled", "fps", "imgsz", "conf", "window", "hits", "codec"}
Default == [enabled |-> TRUE, fps |-> 3, imgsz |-> 640, conf |-> 40,
            window |-> 10, hits |-> 3, codec |-> "h264"]
DefaultInference == [device |-> "cuda:0", model |-> "models/best.onnx", batch |-> 1]
DefaultReconnect == [max_retries |-> 10]

(***************************************************************************)
(* Writing                                                                 *)
(***************************************************************************)

\* Mutant of Entry: the codec is left to its default.
EntryWithoutCodec(cam) == [f \in Texts \union (Optional \ {"codec"}) |-> cam[f]]

\* CameraEntry: every setting is written, whether or not it is the default.
Entry(cam) == [f \in Texts \union Optional |-> cam[f]]

\* The rows that are written: those with a detector id.
Mapped(cams) == {i \in DOMAIN cams : cams[i].id \notin {Absent, <<>>}}

\* write_cameras_yaml: the file has no section of defaults.
Written(cams) ==
    [global |-> Absent, cameras |-> [i \in Mapped(cams) |-> Entry(cams[i])]]

(***************************************************************************)
(* Reading                                                                 *)
(***************************************************************************)

Value(env, name) == IF name \in DOMAIN env THEN env[name] ELSE <<>>

\* expand_env_vars: one pass for the braced variables, then one for the simple
\* ones, which expands those that the first pass has brought in.
Expand(text, env) ==
    LET ReplaceBraced(piece) ==
            IF piece.type # "braced" THEN <<piece>>
            ELSE IF piece.name \in DOMAIN env THEN env[piece.name] ELSE piece.default
        ReplaceSimple(piece) == IF piece.type # "simple" THEN <<piece>> ELSE Value(env, piece.name)
        braced == FlattenSeq([i \in DOMAIN text |-> ReplaceBraced(text[i])])
    IN  FlattenSeq([i \in DOMAIN braced |-> ReplaceSimple(braced[i])])

\* CameraConfig: every text is expanded, a setting left out has its default.
Decoded(entry, env) ==
    [f \in Texts \union Optional |->
        IF f \in Texts THEN Expand(entry[f], env)
        ELSE IF f \in DOMAIN entry THEN entry[f] ELSE Default[f]]

\* CamerasConfig::global: a section that is not there is all zeros, its
\* reconnection and inference settings are the built-in ones.
Global(file) ==
    IF file.global = Absent
    THEN [fps |-> 0, imgsz |-> 0, reconnect |-> DefaultReconnect, inference |-> DefaultInference]
    ELSE file.global

\* apply_camera_defaults: only an explicit 0 is replaced.
WithDefaults(cam, global) ==
    [cam EXCEPT !.fps = IF @ = 0 THEN global.fps ELSE @,
                !.imgsz = IF @ = 0 THEN global.imgsz ELSE @]

\* settings.yaml counts when it names another model or device than the built-in.
Inference(settings, global) ==
    IF settings.model # DefaultInference.model \/ settings.device # DefaultInference.device
    THEN settings ELSE global.inference

\* validate_camera.
ValidCamera(cam) ==
    /\ cam.id # <<>> /\ cam.id \notin LongIds
    /\ cam.enabled => cam.url # <<>>
    /\ cam.fps # 0 /\ cam.conf \in 1..100
    /\ cam.window # 0 /\ cam.hits <= cam.window

\* validate_inference.
ValidInference(inference) == inference.model # Absent /\ inference.batch # 0

DifferentIds(cameras) ==
    \A i, j \in DOMAIN cameras : i # j => cameras[i].id # cameras[j].id

\* validate_config: one camera that is refused refuses them all.
Valid(config) ==
    /\ DOMAIN config.cameras # {}
    /\ DifferentIds(config.cameras)
    /\ \A i \in DOMAIN config.cameras : ValidCamera(config.cameras[i])
    /\ ValidInference(config.inference)

\* load_from_paths: a configuration, or none.
Loaded(file, settings, env) ==
    LET config == [cameras |-> [i \in DOMAIN file.cameras |->
                                   WithDefaults(Decoded(file.cameras[i], env), Global(file))],
                   inference |-> Inference(settings, Global(file)),
                   reconnect |-> Global(file).reconnect]
    IN  IF Valid(config) THEN <<config>> ELSE <<>>
=============================================================================
