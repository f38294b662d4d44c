SPECIFICATION Spec
CONSTANTS
  M16 = 4
  M32 = 8
  M64 = 8
  Reach = {0, 1, 2}
  Steps = {0, 1}
  Scales = {3}
  Presets = {3}
  Requests = 2
PROPERTY PresetIsSet
