\* Every document of up to nine symbols.
SPECIFICATION ParserSpec
CONSTANTS
  MaxSymbols = 9
  MaxPhrase = 14
CHECK_DEADLOCK FALSE
INVARIANTS NodesArePhrases RejectsEarly OriginsExact
 
