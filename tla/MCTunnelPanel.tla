---- MODULE MCTunnelPanel ----
(* Two clicks on Enable, of which one may find cloudflared. *)
EXTENDS TunnelPanel
====
