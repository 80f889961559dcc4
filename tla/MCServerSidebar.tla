---- MODULE MCServerSidebar ----
(* Small instances of the two sidebars.                                    *)
EXTENDS ServerSidebar
====
