--------------------------- MODULE MCOptickServer ---------------------------
(* Clients of this version and of others for OptickServer. *)
EXTENDS OptickServer

AnyScripts ==
  {<<"start", "stop", "cancel", "start">>, <<"sampling", "start", "stop">>,
   <<"older", "stop", "start", "stop">>, <<"newer", "stop", "start">>,
   <<"stop", "unknown", "start">>, <<"start", "older">>}

=============================================================================
