SPECIFICATION Spec
CONSTANTS
  Letter = {"i", "k", "l", "o", "x"}
  Word = {w1, w2, w3}
  Colon = {w3}
  Empty = Empty
  MaxChars = 4
  MaxWords = 3
INVARIANTS
  ModesAreReadInOrder
  TableIsFollowed
