------------------------------- MODULE Startup -------------------------------
(* The start of the program: main (main.cpp) loads the configuration, takes  *)
(* the engine from its argument, opens the camera and starts the recognition *)
(* thread, which reads the configuration too and initialises the recogniser  *)
(* (AlgThread.cpp, FaceDemo::Init, caffe_mtcnn::load_3model).  What Init and *)
(* load_3model return is not looked at.                                      *)
(*                                                                           *)
(* A network is an engine and a name.  Outside the program is what may fail: *)
(* demo.conf, the camera, the Tengine library and the files of the models.   *)
EXTENDS Integers, FiniteSets

CONSTANTS
    Sizes,          \* values of MinFaceSize in demo.conf
    Arguments       \* words the program may be called with; "" is none

ASSUME SizesAssumption == Sizes \subseteq Nat \ {0}
ASSUME ArgumentsAssumption == {"tengine", "caffe-hrt", ""} \subseteq Arguments

VARIABLES
    main, rec,          \* where the threads are
    argument,           \* argv[1], in small letters
    demo_conf,          \* the file: the value of MinFaceSize, or 0 if missing
    models,             \* the networks whose files are there
    instance,           \* how often a Config was made
    conf,               \* what the Config holds
    alg_type,           \* of AlgThread, FaceDemo and mtcnn, by name
    registry,           \* the detectors mtcnn_factory can create
    networks,           \* the networks loaded
    made,               \* the objects made: mtcnn, face_verifier, face_store
    min_size,           \* of the detector
    failed              \* history: Init or load_3model returned early

outside == <<argument, demo_conf, models>>
config == <<instance, conf>>
recogniser == <<alg_type, registry, networks, made, min_size, failed>>
vars == <<main, rec, outside, config, recogniser>>

Engines == {"TENGINE", "CAFFE_HRT"}
Detectors == {"PNet", "RNet", "ONet"}
Names == Detectors \cup {"lighten_cnn"}

\* The engine an argument stands for; any other word is passed over.
EngineOf(word) == IF word = "caffe-hrt" THEN "CAFFE_HRT" ELSE "TENGINE"

Init ==
    /\ main = "load" /\ rec = "none"
    /\ argument \in Arguments
    /\ demo_conf \in {0} \cup Sizes
    /\ models \in SUBSET Names
    /\ instance = 0 /\ conf = 0
    /\ alg_type = [o \in {"AlgThread", "FaceDemo", "mtcnn"} |-> "TENGINE"]
    /\ registry = {} /\ networks = {} /\ made = {}
    /\ min_size = 40
    /\ failed = FALSE

Main(from, to) == main = from /\ main' = to
Rec(from, to) == main # "ended" /\ rec = from /\ rec' = to

\* Config::Instance
Instance == instance' = IF instance = 0 THEN 1 ELSE instance

-----------------------------------------------------------------------------
(* main *)

LoadConfig ==
    /\ \/ demo_conf # 0 /\ Main("load", "camera") /\ conf' = demo_conf
       \/ demo_conf = 0 /\ Main("load", "ended") /\ UNCHANGED conf
    /\ Instance
    /\ UNCHANGED <<rec, outside, recogniser>>

OpenCamera ==
    /\ Main("camera", "construct") \/ Main("camera", "ended")
    /\ UNCHANGED <<rec, outside, config, recogniser>>

NewAlgThread ==
    /\ Main("construct", "start")
    /\ alg_type' = [alg_type EXCEPT !["AlgThread"] = EngineOf(argument)]
    /\ UNCHANGED <<rec, outside, config, registry, networks, made, min_size,
                   failed>>

\* What start returns is not looked at.
StartThread ==
    /\ Main("start", "loop")
    /\ rec' \in {"none", "config"}
    /\ UNCHANGED <<outside, config, recogniser>>

-----------------------------------------------------------------------------
(* The recognition thread *)

ReadConfig ==
    /\ Rec("config", "alg")
    /\ Instance
    /\ UNCHANGED <<main, outside, conf, recogniser>>

SetAlgType ==
    /\ Rec("alg", "library")
    /\ alg_type' = [alg_type EXCEPT !["FaceDemo"] = alg_type["AlgThread"]]
    /\ UNCHANGED <<main, outside, config, registry, networks, made, min_size,
                   failed>>

\* Init registers the detector and asks for the version of Tengine.
Library ==
    /\ registry' = registry \cup {"caffe"}
    /\ \/ Rec("library", "detector") /\ UNCHANGED failed
       \/ /\ alg_type["FaceDemo"] = "TENGINE"
          /\ Rec("library", "people")
          /\ failed' = TRUE
    /\ UNCHANGED <<main, outside, config, alg_type, networks, made, min_size>>

CreateDetector ==
    /\ "caffe" \in registry
    /\ Rec("detector", "classifier")
    /\ made' = made \cup {"mtcnn"}
    /\ UNCHANGED <<main, outside, config, alg_type, registry, networks,
                   min_size, failed>>

Loads(name) == networks' = networks \cup {<<alg_type["FaceDemo"], name>>}

\* With Tengine the classifier comes before the detector's networks; with
\* Caffe it comes behind them.
Classifier ==
    /\ \/ /\ alg_type["FaceDemo"] = "CAFFE_HRT"
          /\ Rec("classifier", "set")
          /\ UNCHANGED <<networks, failed>>
       \/ /\ alg_type["FaceDemo"] = "TENGINE"
          /\ "lighten_cnn" \in models
          /\ Rec("classifier", "set")
          /\ Loads("lighten_cnn")
          /\ UNCHANGED failed
       \/ /\ alg_type["FaceDemo"] = "TENGINE"
          /\ "lighten_cnn" \notin models
          /\ Rec("classifier", "people")
          /\ failed' = TRUE
          /\ UNCHANGED networks
    /\ UNCHANGED <<main, outside, config, alg_type, registry, made, min_size>>

\* Deviation: the detector is told its engine after its networks are loaded.
SetAIType_Later ==
    /\ Rec("set", "nets")
    /\ UNCHANGED <<main, outside, config, recogniser>>

SetAIType ==
    /\ Rec("set", "nets")
    /\ alg_type' = [alg_type EXCEPT !["mtcnn"] = alg_type["FaceDemo"]]
    /\ UNCHANGED <<main, outside, config, registry, networks, made, min_size,
                   failed>>

\* load_3model, with Tengine: the networks in order, until one is missing.
\* With Caffe a missing file ends the process.
LoadWithTengine ==
    /\ alg_type["mtcnn"] = "TENGINE"
    /\ Rec("nets", "rest")
    /\ LET Before(n) == IF n = "PNet" THEN {"PNet"} ELSE
                        IF n = "RNet" THEN {"PNet", "RNet"} ELSE Detectors
           there == {n \in Detectors : Before(n) \subseteq models}
       IN  /\ networks' = networks \cup {<<"TENGINE", n>> : n \in there}
           /\ failed' = (failed \/ there # Detectors)
    /\ UNCHANGED <<main, outside, config, alg_type, registry, made, min_size>>

LoadWithCaffe ==
    /\ alg_type["mtcnn"] = "CAFFE_HRT"
    /\ Detectors \subseteq models
    /\ Rec("nets", "rest")
    /\ networks' = networks \cup {<<"CAFFE_HRT", n>> : n \in Detectors}
    /\ UNCHANGED <<main, outside, config, alg_type, registry, made, min_size,
                   failed>>

NoCaffeNetwork ==
    /\ alg_type["mtcnn"] = "CAFFE_HRT"
    /\ ~(Detectors \subseteq models)
    /\ Rec("nets", "nets")
    /\ main' = "ended"
    /\ UNCHANGED <<outside, config, recogniser>>

\* The rest of Init: thresholds, Caffe's classifier, verifier and store.
RestOfInit ==
    /\ Rec("rest", "people")
    /\ \/ alg_type["FaceDemo"] = "TENGINE" /\ UNCHANGED networks
       \/ /\ alg_type["FaceDemo"] = "CAFFE_HRT"
          /\ "lighten_cnn" \in models
          /\ Loads("lighten_cnn")
    /\ min_size' = conf
    /\ made' = made \cup {"face_verifier", "face_store"}
    /\ UNCHANGED <<main, outside, config, alg_type, registry, failed>>

NoCaffeClassifier ==
    /\ Rec("rest", "rest")
    /\ alg_type["FaceDemo"] = "CAFFE_HRT"
    /\ "lighten_cnn" \notin models
    /\ main' = "ended"
    /\ UNCHANGED <<outside, config, recogniser>>

\* LocalLoad; with a file but no store the process ends (the store is null).
LoadPeople ==
    /\ \/ Rec("people", "frames") /\ UNCHANGED main
       \/ "face_store" \notin made /\ Rec("people", "people") /\ main' = "ended"
    /\ UNCHANGED <<outside, config, recogniser>>

-----------------------------------------------------------------------------

\* The program runs, or it has ended.
Stay ==
    /\ main = "ended" \/ (main = "loop" /\ rec \in {"none", "frames"})
    /\ UNCHANGED vars

Next ==
    \/ LoadConfig \/ OpenCamera \/ NewAlgThread \/ StartThread
    \/ ReadConfig \/ SetAlgType \/ Library \/ CreateDetector \/ Classifier
    \/ SetAIType \/ LoadWithTengine \/ LoadWithCaffe
    \/ NoCaffeNetwork \/ RestOfInit \/ NoCaffeClassifier \/ LoadPeople \/ Stay

Spec == Init /\ [][Next]_vars

-----------------------------------------------------------------------------

\* When the first frame is recognised and nothing was missing, all networks
\* are loaded for the engine of the command line, which is the one the
\* detector and the recogniser will run them with; detector, verifier and
\* store are there; the smallest face is the one of demo.conf.
ReadyBeforeFrames ==
    (rec = "frames" /\ ~failed) =>
        /\ networks = {EngineOf(argument)} \X Names
        /\ alg_type["mtcnn"] = EngineOf(argument)
        /\ alg_type["FaceDemo"] = EngineOf(argument)
        /\ made = {"mtcnn", "face_verifier", "face_store"}
        /\ min_size = demo_conf

=============================================================================
