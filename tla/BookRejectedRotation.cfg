SPECIFICATION Spec
CONSTANTS
  TwoScouts <- TwoScoutsOf
  TwoCycles <- TwoCyclesOf
  TwoPlaces <- TwoPlacesOf
  OnePlace <- OnePlaceOf
  Merging <- MergingOf
  Asking <- AskingOf
  Asks <- AsksOf
  s1 = s1
  s2 = s2
  o1 = o1
  o2 = o2
INVARIANTS RotatedForValidated
