SPECIFICATION Spec
CONSTANTS
  Kinds = {solid, effect}
  Looks = {warm, cold}
  Levels = {1}
  Windows = {main, popup}
  Main = main
  Tx = transaction
  MaxRetunes = 2
  MaxChoices = 2
  MaxActs = 3
  solid = solid
  effect = effect
  warm = warm
  cold = cold
  main = main
  popup = popup
  transaction = transaction
SYMMETRY Alike
CHECK_DEADLOCK FALSE
INVARIANT DragsLand
INVARIANT WindowsCatchUp
INVARIANT DragsAreSaved
PROPERTY OnlyTheTransactionSends
