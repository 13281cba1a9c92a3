CONSTANTS
    MaxX = 255
    MaxY = 81
SPECIFICATION MCSpec
PROPERTIES NaturalsExact NumbersExact FloatsRounded SubtypingSound CheckingSound
CHECK_DEADLOCK FALSE
