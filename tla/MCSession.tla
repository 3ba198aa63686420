------------------------------ MODULE MCSession ------------------------------
(* Small sessions for TLC: two profiles, the UI, the menu, a profile item. *)
EXTENDS SessionProps
MCIds    == {"a", "b"}
MCActors == {"ui", "menu", "item"}
MCPids   == {1, 2}
MCLooks  == {"", "en", "ru"}
In(active, direct, target, pid) ==
  [active |-> active, direct |-> direct, mode |-> "proxy", meta |-> active, target |-> target,
   look |-> "", pid |-> pid]
Sync(clear, in) == [op |-> "sync", clear |-> clear, in |-> in]
MCRequests(a) ==
  {Sync(FALSE, In({"a", "b"}, FALSE, None, 2)), Sync(TRUE, [In({}, FALSE, None, 1) EXCEPT !.mode = "", !.meta = NoMeta]),
   Sync(TRUE, In({"a"}, FALSE, None, 0)), Sync(FALSE, [In({"b"}, FALSE, "b", 0) EXCEPT !.look = "ru"]),
   [op |-> "active", ids |-> {"b"}], [op |-> "mode", mode |-> "system-proxy"],
   [op |-> "connect"],
   [op |-> "settings", doc |-> Doc("vpn", 2)], [op |-> "settings", doc |-> BadDoc],
   [op |-> "settings", doc |-> NoDoc], [op |-> "clearpid", pid |-> 0]}
Store(rows, doc, onDisk) == [row |-> rows, settings |-> doc, files |-> onDisk]
One == [Rows0 EXCEPT !.active = {"a"}, !.meta = {"a"}, !.target = "a", !.pid = 1, !.look = "en"]
MCStores ==
  {Store(Rows0, NoDoc, {"a", "b"}), Store(One, Doc("vpn", 1), {"a", "b", Merged}),
   Store([One EXCEPT !.pid = 0], BadDoc, {"b", Direct}),
   Store([Rows0 EXCEPT !.target = Direct, !.pid = 1], Doc("vpn", 1), {"b", Direct}),
   Store([Rows0 EXCEPT !.direct = TRUE, !.pid = 1], Doc("vpn", 1), {Direct})}
=============================================================================
