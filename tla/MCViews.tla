-------------------------------- MODULE MCViews --------------------------------
(* Constants of the run of Views.                                          *)
EXTENDS Views, TLC

\* The overview opens on a week, analytics on a month; a page of one row makes two
\* requests two pages.  Analytics shows no rows.
First == "overview" :> 7 @@ "analytics" :> 30 @@ "submissions" :> 1 @@ "queue" :> 1
Sizes == "overview" :> 1 @@ "analytics" :> 0 @@ "submissions" :> 1 @@ "queue" :> 1
===============================================================================
