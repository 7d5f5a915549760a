----------------------------- MODULE MCDiscovery ----------------------------
(* For TLC: two of the five targets, a search for everything, for one      *)
(* target, for something else and a datagram that is no search, and the    *)
(* ways to get a configuration file wrong.                                 *)
EXTENDS Discovery

CONSTANTS root, service, other

MCAll == <<root, service>>

Datagram(len, utf8, msearch, st) ==
  [len |-> len, utf8 |-> utf8, msearch |-> msearch, st |-> st]

MCSearches ==
  {Datagram(1, TRUE, TRUE, <<"ssdp:all">>), Datagram(1, TRUE, TRUE, <<service>>),
   Datagram(1, TRUE, TRUE, <<other>>), Datagram(1, TRUE, FALSE, <<root>>)}

Good ==
  [args |-> "run", text |-> "toml", directories |-> 1, port |-> 8200, uuid |-> "auto",
   level |-> "info", cache |-> FALSE, path |-> ""]

MCConfigs ==
  {Good, [Good EXCEPT !.uuid = "fixed"]}
    \cup {[Good EXCEPT !.args = "version"], [Good EXCEPT !.args = "unexpected"],
          [Good EXCEPT !.text = "missing"], [Good EXCEPT !.text = "malformed"],
          [Good EXCEPT !.directories = 0], [Good EXCEPT !.port = 1024],
          [Good EXCEPT !.uuid = "Auto"], [Good EXCEPT !.uuid = "typo"],
          [Good EXCEPT !.level = "loud"], [Good EXCEPT !.cache = TRUE]}
=============================================================================
