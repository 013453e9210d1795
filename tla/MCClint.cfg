SPECIFICATION Spec
CONSTANT MaxDelta = 30
PROPERTIES NoStaleTick NoLateTick
