\* Three images, two damage types of the surface, up to three detections; stops
\* at a score on a threshold with the class below it.
SPECIFICATION PciSpec
CONSTANTS
    Weight <- SurfaceWeight
    Images = 3
    Unit = 20
    Confidences = {10, 15}
    Areas = {1, 13, 14}
    MaxDetections = 3
INVARIANTS ClassOfStoredScore
CHECK_DEADLOCK FALSE
