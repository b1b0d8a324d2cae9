------------------------------- MODULE MCApi --------------------------------
(* An instance of Api: two tasks, pages of two entries.                    *)
EXTENDS Api

MCMaxPages == {None, 1}
=============================================================================
