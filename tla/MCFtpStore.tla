------------------------------ MODULE MCFtpStore -----------------------------
(* FtpStore for TLC: two versions of the file, of different lengths.        *)
EXTENDS FtpStore

MCFiles == {<<"a", "b", "c">>, <<"x", "b">>}
=============================================================================
