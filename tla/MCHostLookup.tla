---------------------------- MODULE MCHostLookup ----------------------------
(* AresHostLookup with values for channel->lookups. *)
EXTENDS AresHostLookup

\* "bf": the name servers first.
BindThenFile == <<"b", "f">>
=============================================================================
