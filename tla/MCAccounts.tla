----------------------------- MODULE MCAccounts -----------------------------
EXTENDS Accounts, TLC

MCSymmetry == Permutations(Chats) \cup Permutations(Tasks)

=============================================================================
