----------------------------- MODULE MCPurchaseLists -----------------------------
\* Instance of PurchaseLists for TLC.
EXTENDS PurchaseLists, TLC

CONSTANTS
    w1, o1, o2 \* an identity and two origins

\* Two recommendations of one book that disagree about its price.
TheRows == {[work |-> w1, price |-> 1, origin |-> o1],
            [work |-> w1, price |-> 2, origin |-> o2]}

ListsSymmetry ==
    Permutations(Books) \cup Permutations(Operations) \cup Permutations(Paths) \cup Permutations(Lists)

================================================================================
