\* The start of the program with every argument and anything missing.
SPECIFICATION Spec
CONSTANTS
    Sizes = {40, 100}
    Arguments = {"", "tengine", "caffe-hrt", "other"}
INVARIANTS
    ReadyBeforeFrames
