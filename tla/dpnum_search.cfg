\* Ranges of up to ten numbers, split among up to three threads, and all the
\* numbers of a word of eleven bits, which holds fourteen digit-power sums.
CONSTANTS
  W = 11
  Inputs <- SearchInputs
  MAX_PDI_NUMBER_COUNT = 15
  CreateMayFail = TRUE
SPECIFICATION FairSpec
INVARIANTS TypeOK CheckIsExact PartsCover OutputExact
PROPERTIES PrintsAll
