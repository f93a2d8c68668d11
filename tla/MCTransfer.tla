----------------------------- MODULE MCTransfer -----------------------------
(***************************************************************************)
(* Transfer of every letter of up to two lines, for TLC.                    *)
(***************************************************************************)
EXTENDS Transfer

\* A line with and without "\r", a blank one, a dot alone (as the
\* server stores the end of a letter, with "\r") and within a line,
\* and a line that is a command.
MCLines == {<<"x">>, <<"x", "cr">>, <<"cr">>, <<"dot">>, <<"dot", "cr">>, <<"x", "dot">>, <<"quit">>}
MCLetters == UNION {[1..n -> MCLines] : n \in 0..2}
=============================================================================
