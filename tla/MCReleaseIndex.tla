-------------------------- MODULE MCReleaseIndex --------------------------
(* ReleaseIndex for TLC: the script over HTTP, a worker over the command. *)
EXTENDS ReleaseIndex
MCScript == {"script"}
MCScripts == {"script", "script2"}
MCWorker == {"worker"}
MCHttp == {"script"}
MCNoWorker == {}
MCRecall == {"recall"}
===========================================================================
