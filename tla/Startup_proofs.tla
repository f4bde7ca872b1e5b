--------------------------- MODULE Startup_proofs ---------------------------
(* Proof that the program is ready when it recognises its first frame, for   *)
(* every argument and whatever is missing.                                   *)
EXTENDS Startup, TLAPS

Engine == EngineOf(argument)

\* Where the recognition thread is before, between and after the networks.
Early == {"config", "alg", "library", "detector", "classifier"}
Told  == {"nets", "rest"}
Late  == {"people", "frames"}

Types ==
    /\ main \in {"load", "camera", "construct", "start", "loop", "ended"}
    /\ rec \in {"none", "set"} \cup Early \cup Told \cup Late
    /\ alg_type \in [{"AlgThread", "FaceDemo", "mtcnn"} -> Engines]

\* The Config is made and filled before there is a second thread.
ConfigFirst ==
    /\ main = "load" => instance = 0
    /\ main \in {"camera", "construct", "start", "loop"} =>
        instance = 1 /\ conf = demo_conf
    /\ main \in {"load", "camera", "construct", "start"} => rec = "none"
    /\ rec = "frames" => main = "loop"

\* The engine is handed on from object to object.
EngineHandedOn ==
    /\ main \in {"start", "loop"} => alg_type["AlgThread"] = Engine
    /\ (main = "loop" /\ rec \notin {"none", "config", "alg"}) =>
        alg_type["FaceDemo"] = Engine
    /\ (main = "loop" /\ rec \in Told) => alg_type["mtcnn"] = Engine

\* With Tengine the classifier is loaded first.
First == IF Engine = "TENGINE" THEN {<<Engine, "lighten_cnn">>} ELSE {}

\* What there is in each place, if nothing was missing so far.
Progress ==
    /\ rec \in {"none"} \cup Early => networks = {}
    /\ rec \in {"none", "config", "alg", "library", "detector"} => made = {}
    /\ rec \in {"classifier", "set"} \cup Told => made = {"mtcnn"}
    /\ (main = "loop" /\ rec \in {"set", "nets"}) => networks = First
    /\ (main = "loop" /\ rec = "rest") =>
        networks = First \cup {<<Engine, n>> : n \in Detectors}
    /\ (main = "loop" /\ rec \in Late) =>
        /\ networks = {Engine} \X Names
        /\ made = {"mtcnn", "face_verifier", "face_store"}
        /\ alg_type["mtcnn"] = Engine
        /\ min_size = conf

IInv == Types /\ ConfigFirst /\ EngineHandedOn /\ (~failed => Progress)

\* The program starts without anything.
LEMMA InitIInv == Init => IInv
BY DEF Init, IInv, Types, ConfigFirst, EngineHandedOn, Progress, Early, Told,
       Late, Engines

\* The steps of main before the second thread exists.
LEMMA MainIInv ==
    ASSUME IInv, LoadConfig \/ OpenCamera \/ NewAlgThread \/ StartThread
    PROVE  IInv'
<1> USE DEF IInv, Types, ConfigFirst, EngineHandedOn, Progress, Early, Told,
            Late, Main, outside, config, recogniser
<1>1. CASE LoadConfig
    BY <1>1 DEF LoadConfig, Instance
<1>2. CASE OpenCamera
    BY <1>2 DEF OpenCamera
<1>3. CASE NewAlgThread
    BY <1>3 DEF NewAlgThread, Engine, EngineOf, Engines
<1>4. CASE StartThread
    BY <1>4 DEF StartThread, Engine
<1> QED
    BY <1>1, <1>2, <1>3, <1>4

\* The second thread, until the engine is known to the recogniser.
LEMMA BeforeNetworksIInv ==
    ASSUME IInv, ReadConfig \/ SetAlgType \/ Library \/ CreateDetector \/ SetAIType
    PROVE  IInv'
<1> USE DEF IInv, Types, ConfigFirst, EngineHandedOn, Progress, Early, Told,
            Late, Rec, outside, config, recogniser
<1>1. CASE ReadConfig
    BY <1>1 DEF ReadConfig, Instance, Engine
<1>2. CASE SetAlgType
    BY <1>2 DEF SetAlgType, Engine
<1>3. CASE Library
    BY <1>3 DEF Library, Engine
<1>4. CASE CreateDetector
    BY <1>4 DEF CreateDetector, Engine
<1>5. CASE SetAIType
    BY <1>5 DEF SetAIType, Engine, First
<1> QED
    BY <1>1, <1>2, <1>3, <1>4, <1>5

\* The networks and what follows, with every way out of it.
LEMMA NetworksIInv ==
    ASSUME IInv,
           \/ Classifier \/ LoadWithTengine \/ LoadWithCaffe \/ RestOfInit
           \/ NoCaffeNetwork \/ NoCaffeClassifier \/ LoadPeople
    PROVE  IInv'
<1> USE DEF IInv, Types, ConfigFirst, EngineHandedOn, Progress, Early, Told,
            Late, Rec, outside, config, recogniser
<1>1. CASE Classifier
    BY <1>1 DEF Classifier, Loads, Engine, First
<1>2. CASE LoadWithTengine
  <2>1. PICK there \in SUBSET Detectors :
            /\ networks' = networks \cup {<<"TENGINE", n>> : n \in there}
            /\ failed' = (failed \/ there # Detectors)
    BY <1>2 DEF LoadWithTengine
  <2>2. main = "loop" => Engine = "TENGINE"
    BY <1>2 DEF LoadWithTengine
  <2>3. /\ rec = "nets" /\ rec' = "rest"
        /\ UNCHANGED <<main, argument, demo_conf, instance, conf, alg_type,
                      made, min_size>>
    BY <1>2 DEF LoadWithTengine
  <2>4. ~failed' => ~failed /\ there = Detectors
    BY <2>1
  <2>5. ~failed' /\ main = "loop" =>
            networks' = First \cup {<<Engine, n>> : n \in Detectors}
    BY <2>1, <2>2, <2>3, <2>4
  <2>6. Engine' = Engine /\ First' = First
    BY <2>3 DEF Engine, First
  <2>7. Types' /\ ConfigFirst' /\ EngineHandedOn'
    BY <2>2, <2>3, <2>6
  <2>8. ~failed' => Progress'
    BY <2>3, <2>4, <2>5, <2>6
  <2> QED
    BY <2>7, <2>8
<1>3. CASE LoadWithCaffe
    BY <1>3 DEF LoadWithCaffe, Engine, First
<1>4. CASE RestOfInit
    BY <1>4 DEF RestOfInit, Loads, Engine, First, Names, Detectors
<1>5. CASE NoCaffeNetwork
    BY <1>5 DEF NoCaffeNetwork
<1>6. CASE NoCaffeClassifier
    BY <1>6 DEF NoCaffeClassifier
<1>7. CASE LoadPeople
    BY <1>7 DEF LoadPeople, Engine
<1> QED
    BY <1>1, <1>2, <1>3, <1>4, <1>5, <1>6, <1>7

\* IInv is inductive.
LEMMA NextIInv == IInv /\ [Next]_vars => IInv'
<1>1. ASSUME IInv, Stay \/ UNCHANGED vars PROVE IInv'
    BY <1>1 DEF Stay, vars, outside, config, recogniser, IInv, Types,
                ConfigFirst, EngineHandedOn, Progress, Engine, First
<1> QED
    BY <1>1, MainIInv, BeforeNetworksIInv, NetworksIInv DEF Next

\* When frames are taken, IInv says what there is.
LEMMA IInvReady == IInv => ReadyBeforeFrames
BY DEF IInv, ConfigFirst, EngineHandedOn, Progress, Late, Engine,
       ReadyBeforeFrames

\* When the first frame is recognised and nothing was reported missing, all
\* networks are loaded, for the engine of the command line, and so is all else.
THEOREM Ready == Spec => []ReadyBeforeFrames
<1> QED
    BY InitIInv, NextIInv, IInvReady, PTL DEF Spec
=============================================================================
