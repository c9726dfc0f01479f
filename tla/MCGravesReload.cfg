CONSTANTS
  Corpses = {b1, b2}  PlayerTombs = {t}  Armor = {helm, plate}  Sword = sword
  NoTomb = noTomb
SPECIFICATION GravesSpec
INVARIANT DeferredShowsAll
CHECK_DEADLOCK FALSE
