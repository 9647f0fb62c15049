---------------------------- MODULE MCOrphanScan ----------------------------
(* OrphanScan on small trees. *)
EXTENDS OrphanScan

(* /dev is excluded as a whole, /var only below /var/log.                  *)
MCPlaces   == {<<"dev">>, <<"dev", "x">>,
               <<"var">>, <<"var", "x">>, <<"var", "log">>, <<"var", "log", "x">>}
MCExcluded == {<<"dev">>, <<"var", "log">>}
MCRoots    == {<< >>, <<"var">>}

(* Records name no excluded place: the scanner leaves those out.  Below    *)
(* /var the name of /var/x is that of /x.                                  *)
MCRecords  == {{}, {<<"var", "x">>}, {<<"dev">>}, {<<"x">>}}
=============================================================================
