---------------------------- MODULE MCFileServer ----------------------------
(***************************************************************************)
(* Instances of FileServer for TLC.                                        *)
(***************************************************************************)
EXTENDS FileServer

OneAtATime ==
    [ops |-> {"create", "delete"}, bases |-> {"d"}, quota |-> 0, callers |-> 1, crashes |-> 0,
     midOperation |-> FALSE, missed |-> 0, lost |-> 0]

\* Nested and colliding names in and out of the trash; crashes anywhere.
Names == [OneAtATime EXCEPT !.ops = @ \cup {"write", "trash", "restore"}, !.quota = 1,
                            !.crashes = 1, !.midOperation = TRUE]
\* Two handlers that compete for the quota.
Storing == [OneAtATime EXCEPT !.ops = @ \cup {"write", "upload"}, !.quota = 2,
                              !.bases = {"d", "f"}, !.callers = 2]
\* A quota that an administrator changes under way.
Regulated == [OneAtATime EXCEPT !.ops = {"create", "write", "setQuota"}, !.quota = 2,
                                !.callers = 2, !.crashes = 1]
\* Sharing in and out of the trash, over a metaserver that always answers.
Sharing == [OneAtATime EXCEPT !.ops = @ \cup {"trash", "restore", "share", "unshare"}]
\* Two handlers: a share may find its directory deleted, and another in its place.
Racing == [OneAtATime EXCEPT !.ops = @ \cup {"share"}, !.callers = 2, !.crashes = 1]
\* Sharing with lost notifications and missed heartbeats.
Unreliable == [OneAtATime EXCEPT !.ops = {"create", "share"}, !.missed = 1, !.lost = 1]
AllOfThem == {Names, Storing, Regulated, Sharing, Racing, Unreliable}

\* Clients who make files called .acl.
Lists == {[OneAtATime EXCEPT !.ops = {"create", "write", "share"}, !.bases = {".acl"}, !.quota = 1,
                             !.crashes = 1]}

\* Handlers are interchangeable, and so are the users a directory is shared
\* with; no property chooses among either of them.
Symmetry == Permutations(Callers) \cup Permutations(Grantees)
=============================================================================
