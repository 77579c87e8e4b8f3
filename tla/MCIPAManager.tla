---------------------------- MODULE MCIPAManager ----------------------------
(* One pipeline handler and a process of somebody else's.  The module  *)
(* directories hold a file that is no module and one for another version,  *)
(* then an open or a closed module, or one without ipaModuleInfo, and some *)
(* of them cannot be loaded.                                               *)
EXTENDS IPAManager

CONSTANTS h1, p1, a, b

Module(file, version, open, loads) ==
    [file |-> file, pipeline |-> "isp", version |-> version,
     open |-> open, loads |-> loads, creates |-> loads]

SomeDirectories ==
    {<<Module("other", 1, TRUE, TRUE), Module("info", 2, TRUE, TRUE), m>> :
        m \in {Module("info", 1, open, loads) : open, loads \in BOOLEAN}
              \cup {Module("no info", 1, TRUE, TRUE)}}

SomeNames == h1 :> "isp"
=============================================================================
