CONSTANTS
  s1 = s1
  s2 = s2
  l1 = l1
  imgBase = imgBase
  imgLib = imgLib
  imgLib2 = imgLib2
  imgA = imgA
  imgA2 = imgA2
  imgB = imgB
  imgC = imgC
  imgOnA = imgOnA
  imgMixed = imgMixed
  imgDeep = imgDeep
  imgDeep2 = imgDeep2
  NoName = NoName
  NoTar = NoTar
  NoImage = NoImage
  NoPath = NoPath
  NoConf = NoConf
  Absent = Absent
  Savers = {s1, s2}
  Loaders = {l1}
  SaveReqs <- MCSaveReqs
  LoadReqs <- MCLoadReqs
  Images <- MCImages
  InitNames <- MCNames
  Moves <- MCMoves
  NameOrder <- MCOrder
  Dests <- MCDests
SPECIFICATION Spec
INVARIANTS
  SeparatedLoadsBack
  CheckedLoadExact
  
CHECK_DEADLOCK FALSE
