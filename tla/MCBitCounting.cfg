CONSTANTS
  Width = 16
  LogWidth = 4
  Arguments <- SampleArguments
  arithmetic <- arithmeticOf
SPECIFICATION BitsSpec
INVARIANT AllAgree
PROPERTY LoopsDescend
