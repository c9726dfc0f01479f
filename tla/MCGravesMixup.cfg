CONSTANTS
  Corpses = {b1, b2}  PlayerTombs = {t}  Armor = {helm, plate}  Sword = sword
  NoTomb = noTomb
SPECIFICATION GravesSpec
INVARIANT TombHasItsGear
CHECK_DEADLOCK FALSE
