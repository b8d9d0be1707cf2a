CONSTANTS
    MaxStarts = 1
SPECIFICATION Spec
PROPERTY StoppedEncoderWaits
