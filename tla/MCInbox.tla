------------------------------ MODULE MCInbox ------------------------------
\* Two events about one subject: the first for both users, the second, of a
\* lower kind, for one of them.  The first environment redelivers events while
\* users and the reconciler touch the items, the second runs the digest twice.
EXTENDS Inbox, TLC
CONSTANTS u1, u2, m1, m2, s1

MCAudience == m1 :> {u1, u2} @@ m2 :> {u1}
MCSubjectOf == m1 :> s1 @@ m2 :> s1
MCRank == m1 :> 2 @@ m2 :> 1
Pref(inApp, email) == [inApp |-> inApp, email |-> email]
MCInboxEnvironments ==
    {[prefs |-> {Pref(TRUE, TRUE), Pref(FALSE, TRUE)},
      deliver |-> 2, touches |-> 1, digests |-> 0, recounts |-> 1],
     [prefs |-> {Pref(TRUE, TRUE), Pref(TRUE, FALSE)},
      deliver |-> 1, touches |-> 1, digests |-> 2, recounts |-> 0]}
OneDigest ==
    {[prefs |-> {Pref(TRUE, TRUE)}, deliver |-> 1, touches |-> 0, digests |-> 1, recounts |-> 0]}
Symmetry == Permutations(Workers)
==============================================================================
