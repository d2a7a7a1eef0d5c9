\* Inputs of up to three tokens out of ten.
CONSTANTS
    Tokens <- MCTokens
    TestFrames <- MCTestFrames
    MaxTokens = 3
SPECIFICATION Spec
INVARIANT CheckThenParse EncodingRoundTrip
\* An input stops growing at MaxTokens.
CHECK_DEADLOCK FALSE
