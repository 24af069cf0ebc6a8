----------------------------- MODULE MCDocuments -----------------------------
(* Small instances of Documents.                                           *)
EXTENDS Documents

CONSTANTS x, y, open, shut

Upsert(t, text, acl) == [kind |-> "upsert", time |-> t, text |-> text, acl |-> acl]
Permission(t, acl) == [kind |-> "permission", time |-> t, text |-> None, acl |-> acl]
Delete(t) == [kind |-> "delete", time |-> t, text |-> None, acl |-> None]

\* A history of one document, in every order of arrival.  Times differ: among
\* envelopes of one time the last to arrive wins.
History == {Upsert(1, x, open), Permission(2, shut), Upsert(3, y, open),
            Permission(4, open), Upsert(5, x, shut), Delete(6)}
Revived == {Upsert(1, x, open), Permission(3, shut), Delete(4), Upsert(5, y, open)}
Confirmed == {Upsert(1, x, shut), Permission(2, open), Delete(2), Upsert(3, y, shut),
              Upsert(4, x, shut)}
Shut == Upsert(1, x, shut)
Nothing == None

=============================================================================
