\* Every order of record clicks, include/exclude clicks, deletes, resets,
\* block runs, emulation starts, stops and pauses over four blocks.
CONSTANTS
  Blocks <- MCBlocks
  SymbolOf <- MCSymbolOf
  NoSymbol = 0
SPECIFICATION Spec
INVARIANT TableMirrorsInclude
INVARIANT CandidateKept
