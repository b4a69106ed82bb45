--------------------------- MODULE MCSubAccounts ---------------------------
(* Small instances of SubAccounts for TLC. *)
EXTENDS SubAccounts

CONSTANTS alice, main, sub, leaf, nft

\* Owners an account can start with, and owners it can be offered to: a person, a
\* token (held by that person or by an account), an account.  Accounts that have
\* nothing to do with each other are the strangers.
MCFirstOwner == {Direct(alice), NFT(nft)}
MCNewOwner == {Direct(alice), NFT(nft), SubAccount(sub)}
=============================================================================
