---------------------------- MODULE MCIngestion ----------------------------
(* Two uploads of files with one row of each kind, or two, or none.        *)
EXTENDS Ingestion, TLC

CONSTANTS q1, q2

Refused(status) == [refused |-> status, rows |-> <<>>]
Of(rows) == [refused |-> 0, rows |-> rows]

MixedFiles ==
    {Refused(400), Refused(413), Of(<<>>), Of(<<"malformed">>), Of(<<"fine", "unstorable">>),
     Of(<<"fine", "malformed", "malformed">>)}
StorableFiles == {Of(<<"fine", "malformed">>), Of(<<"fine", "unstorable">>)}

UploadSymmetry == Permutations(Uploads)
=============================================================================
