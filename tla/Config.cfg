SPECIFICATION Spec
CONSTANTS
    Programs <- SomePrograms
    Inputs <- SomeInputs
    Parts <- SomeParts
    Numerals <- SomeNumerals
INVARIANTS TypeOK ValueIsWinner NothingIgnored
