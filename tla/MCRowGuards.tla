------------------------------- MODULE MCRowGuards -------------------------------
\* Instance of RowGuards for TLC.
EXTENDS RowGuards, TLC

GuardsSymmetry ==
    Permutations(Users) \cup Permutations(Candidates) \cup Permutations(Saves)

================================================================================
