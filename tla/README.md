# A TLA+ model of the face recognition demo

The program shows the picture of a camera, draws a box around each face, and
knows the people it has met: a face that stays in front of the camera for five
seconds is registered under a number, and from then on recognised.  This
directory models the parts of it that keep state, checks them with TLC on small
instances, and proves what matters most with TLAPS for every value of the
constants.

Run from this directory:

    tlc -workers 2 -config FaceDemo_people.cfg MCFaceDemo
    tlapm FaceDemo_proofs.tla

Contents: [1 The system](#1-the-system), [2 The modules](#2-the-modules),
[3 The runs](#3-the-runs), [4 The proofs](#4-the-proofs),
[5 What is left out](#5-what-is-left-out), [6 Plan](#6-plan).

## 1 The system

Two threads and a file.

    camera -> main thread --sendFrame--> AlgThread --Recognize/Register--> FaceDemo
                  ^                          |                             |     |
                  +--getFace, getFps,--------+                    mtcnn ---+     +-- face_mem_store
                     flushRegistMat                              (detector)      +-- cosine_distance_verifier
                  |                          |                                   +-- models/face_demo.dat
                  +------ ./faces/*.png <----+

| component | source | state | operations | how it interacts |
|---|---|---|---|---|
| recogniser | `facecaffe/face_demo.cpp`, `include/face_demo.hpp` | `face_win_list` (the faces being followed), `current_frame_count`, the counters `current_id` and `register_id` | `Init`, `Recognize`, `Register`, `LocalSave`, `LocalLoad` | called by the recognition thread only; calls the detector, the network, the two tables, the file |
| people | `face_mem_store.cpp`, `face_store.hpp` | `data_list_`, at most 1000 records | `insert_new_record`, `remove_record`, `find_record`, `get_all_records` | owned by the recogniser |
| verifier | `simple_verifier.cpp`, `face_verify.hpp` | `feature_db_`, no bound | `search`, `insert_feature`, `remove_feature` | owned by the recogniser; must say the same as the store |
| recognition thread | `AlgThread.cpp`, `AlgThread.h` | `m_Mat` and `m_srcMat` (the mailbox for frames), `m_face[3]`, the waiting room `faces[9]`, `face_id`, `flushRegistMat` | `run`, and for the main thread `sendFrame`, `getFace`, `getFaceID` ... | reads the text `Recognize` returns; the getters are called by the other thread without the lock |
| main thread | `main.cpp` | `show_registed`, `show_recognized` | its loop | reads what the recognition thread writes, and the pictures it saves |
| detector | `caffe_mtcnn.cpp`, `comm_lib.cpp`, `mtcnn.cpp` | none between frames | `detect`: pyramid, three networks, `nms_boxes` | called by the recogniser |
| alignment, network | `face_align.cpp`, `scale_angle.cpp`, `svd.cpp`, `recognition.cpp`, `preprocess.cpp`, `utils.cpp` | none | numerical | called by the recogniser |
| thread wrapper | `thread.cpp`, `thread.h` | `tid`, `threadStatus` | `start`, `join`, `join(ms)` | base of the recognition thread |
| lock | `lock.cpp`, `lock.h` | a mutex | `Lock`, `Unlock` | used by the configuration |
| configuration | `config.cpp`, `config.h` | a map, and `demo.conf` | `LoadConfig`, `GetValue`, `SetValue` | filled by `main` before the second thread exists, read by both threads |
| start | `main.cpp` 53-110, `AlgThread.cpp` 66-85, `face_demo.cpp` 42-125, `load_3model` | `alg_type` in three objects, the networks loaded | `Init`, `SetAlgType`, `set_AI_type`, `load_3model`, the factories | `main`, the recognition thread, the recogniser and the detector, in that order |
| helpers | `util.cpp`, `util.h` | none | conversions, files | used by the configuration and `main` |

What is hard in it, and what would make each part correct:

* **Two tables for one set of people.**  The store is bounded and refuses, the
  verifier is not and replaces; `Register` looks at neither result.  Correct:
  an id has one entry in each, nobody in the store is unknown to the verifier,
  nobody is forgotten while the process lives.
* **Ids from two counters**, one below 10000 for the unknown, one from 10000
  for the registered, both going round, both starting again with the process,
  while the people come back from the file.  Correct: the id tells which of
  the two a face is (both other components rely on it); two windows do not have one
  unknown id; a person keeps id and name.
* **Windows followed by position** over frames: faces move, meet, leave, cross
  the edge; a feature may not be extracted.  Correct: what is reported can be
  registered by the id it is reported under; nothing seen is left out; old
  windows are dropped and do not pile up.
* **A crash at any point**, and a file that is emptied before it is written.
  Correct: outside that window the file holds nobody the store does not.
* **The waiting room**: nine slots for three faces, given up and taken again
  in every frame, with the limit in clock time and a text protocol in between
  that slips when a title is missing.  Correct: no slot leaks, no face is left
  without one, nobody is registered in passing and nobody waits for ever.
* **Two threads** that share frames under a mutex and everything else without
  (`getFace`, `flushRegistMat`).  Correct: in the end the gallery shows whoever
  was registered last.
* **Numbers**: suppression of overlapping boxes, the pyramid, patches at the
  edge of an image that is transposed on the way.  Correct: of boxes that cover
  each other one stays, and the best; every size of face is looked for; a patch
  is cut where there are pixels; a face is reported where it is.
* **A thread wrapper without a lock**: `tid` is written by `start` and by the
  new thread, and read by `join`.  Correct: `join` waits for `run`.
* **A start in many steps** whose results nobody looks at.  Correct: when all
  is there, every network is loaded, and for the engine that was asked for.

`PROJECT.json` lists each of these hazards at its line, with the properties
that would catch it.

## 2 The modules

| module | models | is used by |
|---|---|---|
| `FaceStore` | the two tables as operators on sequences (`RemoveId`, `InsertRecord`, `InsertFeature`, `FindRecord`, `IsBestMatch`) | `FaceDemo` |
| `FaceDemo` | the recogniser with the tables, the file, and the process that is started and killed | `MCFaceDemo`, `FaceDemo_proofs` |
| `FaceRegistry` | abstract: what the recogniser promises about people | `FaceDemo` implements it (`IsRegistry`) |
| `AlgThread` | the recognition thread and its waiting room | `MCAlgThread`, `AlgThread_proofs` |
| `Display` | both threads, on all they share but `m_face` | `MCDisplay`, `Display_proofs` |
| `FrameSlot` | abstract: a place for one frame | `Display` implements it (`IsFrameSlot`) |
| `Overlap` | how `nms_boxes` measures two boxes, and the sets it may leave of some (`Suppressed`) | `Suppress`, `Detector` |
| `Suppress` | the loops of `nms_boxes` | `MCSuppress`, `Suppress_proofs` |
| `Pyramid` | `cal_pyramid_list` | `MCPyramid`, `Detector` |
| `Detector` | `caffe_mtcnn::detect` with all it calls | `MCDetector`, `Detector_proofs` |
| `ThreadLife` | the class `Thread` | the runs, `ThreadLife_proofs` |
| `Startup` | the program until its first frame | the run |
| `MC...` | the values of the constants for TLC | the runs |
| `..._proofs` | the lemmas and theorems | |

How they fit together: `AlgThread` has `FaceDemo` as what its properties
promise, `Display` has `AlgThread` as the steps of it that the other thread can
see, `FaceDemo` has the detector as any faces at all, and `Detector` has
`nms_boxes` as the relation `Suppressed`, which `Suppress_proofs` proves of the
loops (`LoopsAreSuppressed`), and the pyramid as the steps of `Pyramid`.

The definitions whose comment starts with *Deviation:* are small changes to the
definition after them, of the kind a slip in the code would make; the
specification does not use them.  Each property is known to fail with one of
them in the place of the original.

### FaceDemo

One action is one turn of a loop of the code, or a call that has none.

| code | actions |
|---|---|
| `Recognize`, up to the sort and erase | `RecognizeStart`, `Kept` (the sort is not stable: every order of equal areas) |
| its loop on the faces, `get_face_title`, `get_face_id_name_by_position` | `TitleFace`: the window (`IsWindowOf`, `Tracked`) and one of the five ways out of `get_face_title` |
| its loop that builds the text | `BuildResult` |
| `drop_aged_win` | `DropWindow`, `RecognizeReturn` |
| `Register` | `Register`: one of `RegisterRefused` (-1, -2, -3), `RegisterNoFeature` (-1), `RegisterPerson` (0) |
| `LocalSave` | `SaveStart` (opening truncates), `SaveRecord`, `SaveReturn` |
| `LocalLoad` | `LoadRecord`, `LoadReturn` |
| the start and the end of the process | `Start`, `Crash` |

What stands for what:

* A feature vector is an element of `Feature`, comparing is the function
  `Score`; what a vector becomes when it is printed at the six digits of an
  `ostream` and read again is `Printed`, which is not the identity.
* A box has a centre, an area, a flag for "inside the frame", and the feature
  that the aligned face would give; the corners and landmarks are left out.
* A title is the pair of id and name it was printed from; `NoTitle` is the
  title of a window that was never given one (the value-initialised empty
  string of `new face_window()`).
* The text `Recognize` returns is a function from the positions of the
  reported windows to box and title.
* `face_id` is never negative; `score_stored` is written and never read, so
  it is not a variable.
* `get_aligned_face` fails only for a number of landmarks it is not called
  with (it is called with 5, see `scale_angle.cpp`), so its failure branch is
  not modelled.  When the file cannot be opened, saving and loading change
  nothing; the first is a stuttering step, the second is `Start` with an
  empty file.
* The lines of a record are written with `endl`, so they reach the file one by
  one; `LocalLoad` stops at a record whose four lines are not all there.  So
  the file is the sequence of its complete records.
* The counter of the unknown ids is a natural number, not one of 32 bits: at
  thirty draws a second it takes over four years to overflow.
* `Start` may find the file gone, since `run.sh` deletes it; started as
  `./bin/fp`, the program finds the file there was.

### AlgThread

`FaceDemo` is here what its properties say: reported ids are unknown ones
(below `IdBound`) or those the verifier knows (`known`), and `Register` may
succeed only for an id that was reported in this frame
(`ReportedCanBeRegistered`), and may always fail.  Its people (`people`: a name
for each id) are those of the file when the thread starts, or nobody when the file
cannot be opened (`fileFailed`), while `face_id` and `register_id` start anew; so
a newcomer may get the id, or the name, of somebody who was loaded.
`RegisterSucceeds` is `Register` with `get_new_registry_id` and
`insert_new_record`: the id goes round (`NewId`), a record of that id is replaced,
and a full store takes nobody, though `Register` returns 0 and the verifier has
the face (`StorePerson`).  `SaveAll` writes the store, or the file cannot be
opened; nobody looks at what `LocalSave` returns.  `pictures` are those this
process has written.

`RecognizeSome` is lines 88 to 169: any faces up to `FaceNum`, in any
order, even two with one id, with or without a title.  `Readings` is what
comes of counting words (lines 99 to 136) when titles are missing: for the
face itself and those behind it the id becomes 0, the coordinate of an eye, or
0 again, as two, four or six words are missing.  The turns of the two loops
that change nothing are not steps; the others are `EnterSlot` (line 172),
`LooksAway`, `StillWaits`, `HasWaited`, then `RegisterSucceeds` or
`RegisterFails`, `SaveAll`, `WritePicture`, `RaiseFlush`, and for the loop of lines
227 to 248 `GiveSlot`.  Three variables are history: `since`, since
when an id has been in every frame; `newcomers`, whose record this process has
stored; and `fileFailed`, whether the file could not be opened the last time.  Left out: the pictures themselves and the crop, the
`time` shown beside a face, frames per second.

The clock is that of `gettimeofday`: it may stand still between two frames, go
on, or be set back (`Step` is a set of integers).  `curtime` is an `int`, and the
milliseconds since 1970 are far outside its range, so what it holds is the rest
(`ToInt`), which goes round every 49 days; the waiting time is a difference of
two such rests.  `IntHalf` is the 2^31 of the code.

### FaceRegistry

The promise about people, with no camera, window, verifier or order: a table
by id with room for `Capacity`, registered into, written to a file and read from it,
with a kill at any point.  `FaceDemo` implements it under the mapping at its
end: a record of the store is a person by id (the first of two counts, as in
`find_record`), and a process with a call of `Recognize` on its stack is "up".
The mapping includes liveness: loading and saving come to an end.  Two gaps of
the program are part of the promise: an id that is taken is replaced, and a kill in
`LocalSave` leaves any part of the file.

### Display and FrameSlot

Every access to something shared is a step.  `sendFrame` and the fetch at the
top of `run` are four steps each (lock, two Mats, unlock); the gallery is the
loop of `main.cpp` 157-175 against lines 180-220 of `AlgThread.cpp`.  Of the
recognition thread only what the main thread can see is kept: `face_id` is
counted up before `Register`, and the picture is written after it, in two steps,
since `imwrite` empties the file first and a file in between reads as an empty
Mat.  `Leftover` are pictures of an earlier process, when `run.sh` has removed none.

`FrameSlot` is one place for one frame.  What the mapping says: the place
changes when the second Mat is written, and the recognition thread has the
frame once it has both Mats; if they were of two frames the mapping gives -1,
which no step of `FrameSlot` does.  `m_face` is not in the model: it is copied
while it is written, two of its fields are strings, and no outcome of that can
be listed.

`GalleryCurrent` has an exception, `missed`: when the flag is raised between
the reading of `face_id` (line 159) and the clearing (line 174), the newcomer is not
shown until the next one is registered.  Nothing in the repository promises
more, so it is no finding; the history variable says exactly when it happens.

### Overlap, Suppress, Pyramid, Detector

`Suppress` is `nms_boxes` turn by turn: the sort (any order of equal scores,
since `std::sort` is not stable), then the outer loop; the inner one is one
step, since each of its turns touches another element of `merged`.  Scores and
coordinates are integers, `Unit` to a pixel, and a quotient is compared with the
threshold by multiplying; `QuotientDefined` proves that what is divided by is
positive, so that the two are the same.

`Pyramid` has `min_side` as the integer it is, truncated in every turn, and
`cur_scale`, a `double`, as an exact fraction (numerator and denominator).  For the sizes of the run the
windows were compared with those of the code's arithmetic: they are the same.
The truncation can cost a turn, so a face that fills the image may be one
factor larger than the cell in the last window; `SeenAt` allows for that.

`Detector` is `detect`, function by function; the networks answer anything
(`RunPNet`, `RunRNet`, `RunONet`), in cells and boxes the run bounds.  Shifts are
whole quarters of a box and `Unit` is 64, so nothing is rounded in the three
regressions.  Nothing in the code bounds how far a network moves the end of a
box, and neither does the model: a box may leave the image or turn round.  When
`copy_one_patch` then asks for a range that ends before it begins (`Reversed`),
OpenCV throws, nobody catches it, and the stage is `thrown` (`PatchFails`).  A range
without a pixel is refused by some versions of OpenCV and taken by others, so there
the model may throw or go on.  What holds for every answer is in `PatchesInside`,
`NoneInsideAnother` and `FacesInFrame`; what holds only as long as the networks
move an end by no more than a quarter of its box is in `SmallMovesAreSafe`, with
the history variable `moved` as its condition.
A patch is not always a square: its part of the image and its border
are cut to pixels one by one, and its two sides may come to differ by two lines
(`PatchesInside`).  A list of boxes is a set: two equal boxes get equal answers from a
network and one suppresses the other.  Kept as they are: exchanged height and width (`Landmark`), and that the Tengine path compares
ONet's score with the threshold of RNet (`LastThreshold`; the program passes 0.9 for
both, `AlgThread.cpp:85`).

### ThreadLife

`run1` in the new thread, and `start`, `join` and `join(millisTime)` in the thread
that made it; every read and write of `tid` and `threadStatus` is a step.
`join` reads `tid` twice in the source and once as built with optimisation; the
model has the one read.  `pthread_create` writes the id before the new thread
runs, as glibc does: this is what `JoinWaitsForRun` rests on, and the deviation
`Start_WithoutTid` shows it.

### Startup

`main` up to its loop, and the recognition thread up to its own: the Config, the
argument, the camera, then `SetAlgType`, `Init` with each of its early
returns, `load_3model`, `LocalLoad`.  Which files and libraries are there is
chosen at the start; with Caffe a missing file ends the process (`CHECK`), with
Tengine it is a return value that nobody looks at (`failed`).  After a failure
null pointers are used; the model goes on with what is defined.  `demo.conf`
has the keys `Device` and `Engine`, which no code reads: the engine is the word
on the command line, and Tengine if there is none.

## 3 The runs

| run | instance | shows |
|---|---|---|
| `FaceDemo_people` | two people, store for 2, registry counter of 3, 2 frames a life, any number of lives, every id of a small set passed to `Register` | the tables agree, nobody is forgotten, the file follows the store, an id tells recognition, a reported face can be registered |
| `FaceDemo_windows` | seven kinds of frames: faces that move, meet, leave, cross the edge, and three where two are handled; 3 frames | every face of a frame is shown at its place, or near it where another one took its window; windows do not pile up, unknown ids are distinct until the counter has gone round (which takes more than 5 draws, and happens) |
| `FaceDemo_calls` | a smaller instance | every call returns (liveness), and the recogniser is a `FaceRegistry` (refinement) |
| `FaceDemo_rename` | one frame a life, store that is never full | **violation**: a person's record gets another name |
| `AlgThread_waiting` | two faces, three slots, a limit of 1, a clock that is set back and an int that goes round; a store for 2, a person loaded from the file or none, two registry ids, a file that may fail to open | the properties of the waiting room, and that newcomers have names, pictures and a file that follows the store |
| `Display_threads` | gallery of 3, three frames, five people, two pictures left over | the mailbox is a `FrameSlot` (refinement); the gallery is ordered, current, and shows newcomers in the end (liveness) |
| `Suppress_boxes` | every list of up to four of eleven boxes | nothing that is kept covers another, nothing is dropped without a better one |
| `Pyramid_sizes` | images of 640 and 1280 by 12 to 720, three values of `MinFaceSize` | every window fits the cell, every size of face is looked for |
| `Detector_cascade` | image of 24 by 18, two windows, two cells lit, three scores, four shifts, two marks; one of the shifts turns a box round, so `thrown` is reached | patches in the image, marks in the box, no face inside another; faces in the frame, and nothing thrown, while the moves are small |
| `ThreadLife_join` | limits up to 3 ms | `join` waits for `run`, and the calls come back (liveness) |
| `ThreadLife_timeout` | the same | **violation**: the timed join does not wait its time |
| `Startup_ready` | four arguments, every set of missing files | what is loaded before the first frame |

**Bounds.**  `MaxFrames` bounds the frames of one life of the process; one life can
have a window followed, given up and dropped with `KeepLimit = 1` and three
frames.  The tables are bounded by the ids there are.  `UnknownMax`,
`RegistryLimit` and `MaxRecords` are small so that the counters go round and
the store is full within a run; that is what these properties are about.
In `AlgThread`, `MaxTime` bounds the clock (which may also stand still) and
`MaxNames` the registrations: once it is reached the frames are empty, and since several
faces may be registered in one frame, more names than that are given.  The
slots: the code has 9 for 3 faces.  A face can hold two slots, since one that
comes to exactly 0 milliseconds no longer counts for line 230 but is still
visited by line 171; so the code needs more than 2 slots for each face but one
(`SlotsAssumption`).  The run has 3 slots for 2 faces, the least that is
allowed; with 2 there is a counterexample.  `RegistryLimit = 12` leaves two
registry ids, so the second newcomer goes round to the first id; with the person
an earlier process may have left, under either id (`OldPeople`), the store is full
for a newcomer, or he replaces somebody, or gets a name that is there already.
`MaxTime = 8` lets the int go round (it holds -8 to 7) and somebody wait out the
limit.  `LiveView` identifies states that differ only in what is not read again
before it is written: the contents of a slot nobody waits in, of a file that could
not be opened, the ids of a frame's windows after the last slot; and in which of the
registered people a face is, which the thread does not look at.

`Display`: the gallery has 3 cells for 5 people, so it fills and scrolls, and
an old picture (4) lies where a new one will be.  With three frames the second
is replaced before it is fetched, and fetched twice.  `Suppress`: four boxes are
enough for a box that is merged, one that would have been merged by a merged one, and
one behind both.  `Pyramid`: the sides are those of the program (640 by 360,
`MinFaceSize` 100) and others around multiples of the cell.  `Detector`: the
cells lie at each edge of the image and next to one another, two can come from
one window or two; three scores give every order of two boxes after each network.
`ThreadLife`: `MaxNap` bounds how late `usleep` comes back.

**Fairness.**  `FaceDemo` assumes weak fairness of `Proceed`, the steps inside a
call: the thread that made the call goes on running, nothing in it waits for
another.  Nobody has to make a call, and nobody has to start or kill the
process.  `AlgThread` is checked for safety only.
`Display` assumes weak fairness of both threads, which run on cores of their
own (`bindToCpu`), and strong fairness of the two lock operations: each thread
asks for the mutex again and again while the other lets go of it for most of
its loop.  `ThreadLife` assumes weak fairness of the two threads, but not that
`run` ever returns.

**The findings.**  (1) `Register` refuses to rename (`-2`, with the comment `do not
support change name`, `face_demo.cpp:228`).  But the id a newcomer gets is
drawn from a counter that starts at 10000 with the process and goes round at
20000 (`face_demo.cpp:387-392`), and neither looks who is in the store.  The
run registers somebody as 11 (the 10001 of the code), saves, restarts, loads,
registers somebody else: the id is 11 again, `insert_new_record` replaces the
record, and the person in it has another name and another face.  The
repository ships a `models/face_demo.dat` that holds a person 10001, so the first
registration replaces him unless `run.sh` has removed the file.  In the shipped
program the names are numbers that restart with the process as the ids do
(`AlgThread.h:73`), so the newcomer of id 10001 is called 10001 as well: the
person's face and picture are replaced, and the name stays.  It changes there
only once the two counts have parted, since a `Register` that failed uses up a
name and no id, and names do not go round; or with another caller of `Register`.

(2) `thread.h:48` says of `join(unsigned long millisTime)` that it waits for the
thread to exit or for the time to be over.  The code counts turns of
`usleep(100)`, which are tenths of a millisecond, against the limit in
milliseconds, and so gives up after a tenth of the time (`thread.cpp:62-66`).
The program only uses `join()`.

## 4 The proofs

All theorems hold for every value of the constants that meets the module's
named assumptions; where a theorem needs more, it says so with `ASSUME`, and
the hypothesis is explained below.

### FaceStore and FaceDemo

`FaceStore_proofs` has the lemmas about the tables: where a scan finds an id,
what is left after `RemoveAt`, that inserting keeps ids unique, drops nobody
else, and keeps two tables in step that were.  `FaceDemo_proofs`:

| theorem | states | rests on |
|---|---|---|
| `TypeCorrect` | `[]TypeOK` | inductive as it is |
| `TablesAlwaysAgree` | `[]TablesAgree` | with `TypeOK`; the last conjunct (in step until full) is what makes the fourth (nobody in the store only) inductive when the store refuses |
| `PeopleAreKept` | `PeopleKept` | `TablesAgree` at the step before: the id erased is the id pushed back |
| `NullNameWhenFull` | `[]NullNameOnlyWhenFull` | `TablesAgree`: the id the verifier answers with is in the store, unless the store was full |
| `IdAlwaysTellsRecognition` | `[]IdTellsRecognition` | `WindowsTell`: the same of every window, titled or not, and that a title is the id and name its window holds |
| `UnknownIdsStayDistinct` | `[]UnknownIdsDistinct` | `UnknownIdsDrawn`: until the counter has gone round, an unknown id in a window is one it has passed, and in no other window |
| `EveryFaceIsReported` | `[]EveryFaceReported` | `WindowsCounted`: a frame has at most as many windows as faces (`SeenIn`), so the result has room for all; `FacesFollowed`: each face handled so far has a window of this frame within `TracePixels` for each one handled after it, since a window is moved only to a face that is near it |
| `WindowsStayBounded` | `[]WindowsBounded` | `WindowsCounted`, and `NoneAgedBehind`: what the loop that drops windows has passed is not old |
| `ReportedIsRegistrable` | `[]ReportedCanBeRegistered` | `ResultBacked`: while windows are dropped, each entry of the result has a window of this frame with its id |
| `FileAlwaysFollows` | `[]FileFollowsStore` | `FileInv`: an id has one record in the file, and the store has room for all of them, so none read back erases another |
| `RecogniserIsRegistry` | `Registry!Init /\ [][Registry!Next]` under the mapping of `IsRegistry` | all of the above that speak of the tables; one lemma per action: it is a step of `FaceRegistry` or leaves the mapped variables alone |

A result is a copy of the windows as they were when it was built, and windows
are dropped after it: `IdTellsRecognition`, `EveryFaceReported` and
`ReportedCanBeRegistered` are not inductive, and the strengthenings say what of
the windows carries over.  The assumptions: `UnknownMax <= RegistryBase` (the two
kinds of ids do not meet), the sizes are positive, the names the program makes
up ("unknown", "nullname") are nobody's.  The last is an assumption the code does
not enforce; the names of this program are numbers.

### AlgThread

| theorem | states | rests on |
|---|---|---|
| `WaitingRoomTypes` | `[]TypeOK` | `TypeInv`: the places of the loops, also while the second one stands still |
| `PeopleAlwaysComplete` | `[]PeopleComplete` | `PeopleInv`: names only grow; a newcomer without a picture is the one being registered, and the file is behind the store only from that registration to the save |
| `NoSlotEverLeaked` | `[]NoSlotLeaked` | `LeakInv`: the slots the loop has passed are held by faces of this frame |
| `NeverThreeSlots` | `[]AtMostTwoSlots` | `TwoInv`: two slots of one face were given at different times, so one of them has time left when the other comes to 0, and no third is given |
| `EveryFaceGetsASlot` | `[]EveryUnknownFaceWaits` | `WaitInv`, and a pigeonhole: the other faces of a frame hold two slots each at most, and `SlotsAssumption` says that leaves one |
| `LimitIsKept` | `[]NobodyWaitsTooLong`, if `ShortLife` | `TimeInv`: every slot was given at some time of the clock that the 32 bits of `capTime` stand for |
| `NobodyRegisteredInPassing` | `[]RegisteredAfterWaiting`, if `ClockAssumption` | `SinceInv`: a slot was given after its face appeared |

`ShortLife` says that no two times of the process differ by half the range of an
`int` in milliseconds, that is, that it is younger than 24 days and 20 hours.
The code keeps a time in milliseconds in an `int`, and the difference of two is
right only so.  `ClockAssumption` is weaker: either that, or the clock is never
set back (`gettimeofday` may be).  The other five theorems need neither: they
hold whatever the clock does.

### Display and Startup

| theorem | states | rests on |
|---|---|---|
| `MailboxIsFrameSlot` | `Spec => Slot!Spec`, a refinement step by step | who is between lock and unlock holds the mutex; the two Mats differ only while `main` is between them, and then the new one is not older; what `run` has copied first is still there when it copies the second |
| `DisplayTypes` | `[]TypeOK` | `LoopBounded`: where `main` stands in its loop over the pictures |
| `GalleryInOrder` | `[]GalleryOrdered` | `OrderInv`: the cells `main` has filled are of people after those it still looks for, the others of people it still looks for (`Parted`); the pictures of those cells are there to stay while `run` writes others (`OldCellsStay`) |
| `GalleryIsCurrent` | `[]GalleryCurrent` | `CurrentInv`: unless `main` has missed the flag, the last person's picture is in the first cell, on its way there, or the flag is up |
| `Ready` (`Startup_proofs`) | `[]ReadyBeforeFrames` | what there is at each place of the start, and that the engine was handed on before it is used |

### Suppress

For lists of any length, any boxes and any rule:

| theorem | states | rests on |
|---|---|---|
| `SuppressTypes` | `[]TypeOK` | the inductive invariant `IInv` |
| `SuppressApart` | `[]KeptApart` | in `IInv`: a box behind the loop is kept or merged, and whatever a kept box covers behind it is merged |
| `SuppressCovered` | `[]DroppedCovered` | in `IInv`: whatever is merged has a kept box that covers it and stands before it in the sorted list; and that the sort is a permutation |
| `LoopsAreSuppressed` | the set of the kept boxes is one of `Suppressed` | the two before: it joins this module to `Detector`, which has `nms_boxes` as that relation |
| `QuotientDefined` | what is divided by is positive | arithmetic on the corners |

### Pyramid and Detector

`Detector_proofs` has both, since the second needs the first:

| theorem | states | rests on |
|---|---|---|
| `SizesTyped`, `WindowsFit` | `[]SizesTypeOK`, `[]EveryWindowFits` | `MinSideBelow`: `min_side`, an integer cut in every turn, is not above the shorter side in the scale of the next window |
| `FaceSizesSeen` | `[]EveryFaceSizeSeen`, if `ThreeQuarters` | `LittleCut`: what all turns cut off together is less than four pixels; `StillToSee`: a face not seen yet is smaller than the next window shows |
| `PyramidInside` | `Spec => PyramidSpec` | every step of `detect` is one of `cal_pyramid_list`'s or leaves it alone |
| `DetectorTypes` | `[]TypeOK` | `CascadeInv`, whose parts are the windows' sizes, the stage, the boxes (`BoxIsRight`) and the faces; a square whose patch could be cut has not turned round |
| `NoFaceTwice` | `[]NoneInsideAnother` | the last suppression, and that `Over` with the rule "min" holds of a box in another one |
| `PatchesAreInside` | `[]PatchesInside` | `BoxIsRight`: the box is a square when it is cut; along each side of the image on its own (`PatchAxis`), and that two roundings cost two lines (`TwoLines`) |
| `FacesAreInFrame` | `[]FacesInFrame` | `BoxIsRight`: what ONet looked at could be cut, so it reaches into the image (`CutAxis`), and only its shift moves it on |
| `SmallMovesSafe` | `[]SmallMovesAreSafe`, if `NoMagnifying` | `SmallInv`: how far a box may be out of the image at each stage, along each side on its own (`FoundAxis`, `SeenAxis`, `LookedAxis`) |
| `MarksAreInBox` | `[]MarksInBox`, if `InnerMarks` | that a box is square when ONet looks at it, which is why the exchange of height and width does no harm |

The hypotheses.  `ThreeQuarters`, the factor is at most 3/4: the program passes
0.7 (the default is 0.709, `mtcnn.hpp:49`), and it is not idle: with 9/10 TLC finds
an image of 28 pixels in which a size of face is skipped.  `NoMagnifying`, for
`SmallMovesSafe` only: `MinFaceSize` is at least PNet's 12 pixels, as it is in
`demo.conf`, so that no window is larger than the image.  `InnerMarks`, for
`MarksAreInBox` only: ONet's landmarks lie within the box it looks at, which
nothing in the code ensures; it is about what was trained.  The others on the
cascade need no hypothesis: they hold whatever the networks answer.

### ThreadLife

| theorem | states | rests on |
|---|---|---|
| `ThreadTypes` | `[]TypeOK` | the inductive invariant `IInv` |
| `JoinWaits` | `[]JoinWaitsForRun` | `tid` is the thread's id from the return of `pthread_create` until `run1` clears it, which is after `run` |

### Only checked by TLC

Every invariant of a passing run is a theorem.  What stays with TLC is liveness:
`CallsReturn`, `NewcomerShown`, `JoinReturns`, and the fairness of `FaceRegistry` in
`IsRegistry` (`RecogniserIsRegistry` has the rest of it).  Fairness is defined
with `ENABLED`, which this version of the prover does not reason about.  The two
runs that end in a violation show behaviours, and there is nothing to prove.

## 5 What is left out

* The networks themselves, the alignment and the numerical code
  (`face_align.cpp`, `scale_angle.cpp`, `svd.cpp`, `recognition.cpp`,
  `preprocess.cpp`, `utils.cpp`): no state, and real numbers.
* Drawing, and with it `getFace`: `m_face` is read by one thread while the
  other writes it, strings included; the code promises nothing about it.
* The crop of lines 138 to 215 of `AlgThread.cpp`, frames per second, the
  seconds shown beside a face.
* `Locker` and `ScopeLocker`: two calls of pthreads each, used only by the
  configuration, which nobody changes once there are two threads.
* The helpers of `util.cpp`; a key missing from `demo.conf` (read as 0).
* Memory: allocation, the missing `delete`s.
* What is declared or defined and never called: `Register(frame, name)`,
  `remove_record(name)`, `find_record(name)`, `SetValue`, `Release`, `PrintAll`,
  `cal_landmark`, `set_box_bound`, `getfacemat`; `network_shell.hpp`,
  `telnet_buf.h`, `cameraThread.h`, `my_head.h` and the `conf`, `mxnet` and
  `tensorflow` headers.
* The vendored headers (`lapacke.h`, `f77blas.h`, `json/`, `glog/`, `gflags/`).
  They are nine tenths of the lines in `src/`; the program's own code is some
  3500 lines, and it is that which the modules cover.

## 6 Plan

1. done: all modules of section 2, the refinements of `FaceRegistry` and
   `FrameSlot`; the theorems of section 4.
2. `AlgThread` over `FaceRegistry` in place of what its properties promise of
   `FaceDemo`, with several lives of the process; now one life starts from the
   people an earlier one may have left.
3. A key missing from `demo.conf`, which is read as 0, in `Startup`: which of
   them the first frame divides by.
