CONSTANTS
  n1 = n1  n2 = n2
  Names <- MCNames
  DotDot = ".."
  Inums = {1, 2}
  DPB = 2
  MaxSlots = 5
  MinLink <- MCMinLink
SPECIFICATION Spec
INVARIANT LinkCountMatchesDisk
