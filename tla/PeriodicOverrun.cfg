SPECIFICATION PrdSpec
CONSTANT Frequency <- SmallFrequency
PROPERTY OverrunResets
