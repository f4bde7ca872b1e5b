\* The two threads exchange frames and show newcomers in a gallery for three, with pictures left over from before.
SPECIFICATION Spec
CONSTANTS
    GallerySize = 3
    Leftover <- TwoOld
    MaxFrame = 3
    MaxNames = 5
INVARIANTS
    TypeOK
    GalleryCurrent
    GalleryOrdered
PROPERTIES
    IsFrameSlot
    NewcomerShown
CHECK_DEADLOCK TRUE
