SPECIFICATION Spec
CONSTANT Charts <- EveryChart
INVARIANTS CompiledWell ActivityOrder LegalConfiguration HistoryIsLast
