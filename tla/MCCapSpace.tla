------------------------------ MODULE MCCapSpace -------------------------------
EXTENDS CapSpaceProperties

\* CNodes and threads, nested and in each other, deleted step by step.
ZombieInvocations == {"Copy", "SetSpace", "Delete", "Revoke", "Retype"}
ZombieObjects == {<<"cnode", 1>>, <<"thread", 0>>}

\* Untyped memory and badged endpoint caps, derived, moved and revoked.
DerivationInvocations == {"Copy", "Mint", "Move", "Rotate", "Delete", "Revoke", "Retype"}
DerivationObjects == {<<"untyped", 0>>, <<"endpoint", 0>>}

===============================================================================
