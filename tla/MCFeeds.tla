------------------------------ MODULE MCFeeds ------------------------------
(* Subscribers for the run of Feeds: ones that keep out, one that subscribes *)
(* another, and one that A alone can have, that asks for the best bid.       *)
EXTENDS Feeds

MCSetups ==
  [d \in Designs |->
     IF d = "A"
       THEN {<<"cheap", "cheap">>, <<"subscribing", "cheap">>, <<"cheap", "quoting">>}
       ELSE {<<"subscribing", "cheap">>}]

=============================================================================
