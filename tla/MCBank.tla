------------------------------- MODULE MCBank -------------------------------
\* The bankers with three processes whose claims overlap on two resources.
EXTENDS BothBankers, TLC

MCTotal == (0 :> 2 @@ 1 :> 2)

MCMaximum ==
    (0 :> (0 :> 2 @@ 1 :> 1)) @@
    (1 :> (0 :> 1 @@ 1 :> 2)) @@
    (2 :> (0 :> 1 @@ 1 :> 1))
=============================================================================
