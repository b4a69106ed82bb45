---------------------------- MODULE MCAdminCalls ----------------------------
(* A small instance of AdminCalls for TLC.                                 *)
EXTENDS AdminCalls

\* The app is authorised and not any more; another address takes the place that the
\* app would have in the new version.
MCAsked ==
  {ToFree(Owner), ToFree(App), Update(Old, {App}, {}), Update(Old, {}, {App}),
   Update(New, {Stranger}, {})}
=============================================================================
