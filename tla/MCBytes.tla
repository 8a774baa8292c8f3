------------------------------- MODULE MCBytes -------------------------------
(***************************************************************************)
(* What is stored and what goes out: files with their objects, and the     *)
(* shared mailbox. Each behaviour runs one of them while the other has no  *)
(* operation to take.                                                      *)
(***************************************************************************)
EXTENDS FileStore, Mailbox

(* Files. Each environment is one workspace and a few operations that meet. *)

\* Uploads racing for the last of the quota; versions and previews; deletes,
\* crashes and the collector; trash, restore and purge with the index.
NoFileOps == [k \in {"chat", "drive", "mail", "replace", "restore", "attach", "reply", "detach", "trash",
                     "untrash", "delete", "purge", "recompute", "quota", "fault", "crash"} |-> 0]
V(k, n) == [key |-> k, size |-> n]
Workspace(rs, ages, cap, procs, ops) ==
    [rows |-> rs, age |-> ages, limit |-> cap, limits |-> {1}, sizes |-> {1}, procs |-> procs, ops |-> ops]
Drive1 == NewRow({"folder"}, 1, <<V(1, 1)>>)
Drive2 == NewRow({"folder"}, 2, <<V(1, 1), V(2, 1)>>)
Chat1 == NewRow({}, 1, <<V(1, 1)>>)
Sent2 == NewRow({"message"}, 2, <<V(2, 1)>>)
Fresh(n) == [k \in 1..n |-> 0]

MCFileEnvironments ==
    {[Workspace(<<>>, Fresh(0), 2, Requests,
                [NoFileOps EXCEPT !["chat"] = 1, !["drive"] = 1, !["quota"] = 1])
        EXCEPT !.sizes = {1, 2}],
     Workspace(<<>>, Fresh(0), 0, {1},
               [NoFileOps EXCEPT !["mail"] = 1, !["drive"] = 1, !["fault"] = 1, !["crash"] = 1]),
     Workspace(<<>>, Fresh(0), 0, {1}, [NoFileOps EXCEPT !["drive"] = 1, !["fault"] = 2]),
     Workspace(<<Drive2>>, Fresh(2), 3, Requests,
               [NoFileOps EXCEPT !["replace"] = 1, !["restore"] = 1, !["fault"] = 1]),
     Workspace(<<Drive1>>, Fresh(1), 2, Requests,
               [NoFileOps EXCEPT !["replace"] = 2, !["crash"] = 1]),
     Workspace(<<Chat1, Sent2>>, Fresh(2), 0, {1},
               [NoFileOps EXCEPT !["attach"] = 1, !["detach"] = 1, !["reply"] = 1, !["crash"] = 1, !["fault"] = 1]),
     Workspace(<<Sent2>>, [Fresh(2) EXCEPT ![1] = 2], 0, {1},
               [NoFileOps EXCEPT !["delete"] = 1, !["drive"] = 1, !["crash"] = 1]),
     Workspace(<<Drive2>>, Fresh(2), 0, {1},
               [NoFileOps EXCEPT !["trash"] = 2, !["untrash"] = 1, !["purge"] = 1, !["fault"] = 1]),
     Workspace(<<Drive1>>, Fresh(1), 0, Requests, [NoFileOps EXCEPT !["trash"] = 1, !["untrash"] = 1, !["replace"] = 1]),
     Workspace(<<Drive2>>, Fresh(2), 0, Requests, [NoFileOps EXCEPT !["trash"] = 1, !["purge"] = 1, !["restore"] = 1]),
     Workspace(<<Sent2>>, Fresh(2), 1, Requests, [NoFileOps EXCEPT !["delete"] = 2, !["recompute"] = 1]),
     Workspace(<<Chat1>>, Fresh(1), 1, Requests, [NoFileOps EXCEPT !["delete"] = 2, !["drive"] = 1])}

\* Two deletes of one file at once.
TwoDeletes == {Workspace(<<Chat1, Sent2>>, Fresh(2), 0, Requests, [NoFileOps EXCEPT !["delete"] = 2])}

-----------------------------------------------------------------------------
(* Mail: two addresses, of a domain and of a domain under it.              *)

MCHosts == {<<"t", "v">>, <<"t", "v", "m">>}
MCHostOf == <<<<"t", "v">>, <<"t", "v", "m">>>>

Nowhere == [owner |-> 0, verified |-> FALSE]
Registered(t, v) == [owner |-> t, verified |-> v]
NoBox == [owner |-> 0, domain |-> <<>>, next |-> 1]
BoxOn(t, h) == [owner |-> t, domain |-> h, next |-> 1]
NoMailOps == [o \in {"domain", "verify", "drop", "box", "write", "post", "fail", "patch", "reply", "lost", "fault"} |-> 0]

\* Two tenants register in one name space; the provider posts twice, to either mailbox and
\* with either token; letters filed at once and then named together; a closed conversation
\* answered again; replies of a verified and of an unbound mailbox, and to customers without
\* an address or with one that is refused, meet a queue and a transport that fail.
Conv(b, n, customer) == [box |-> b, number |-> n, awaiting |-> TRUE, state |-> "open", customer |-> customer]
Asked(n) == [c \in 1..n |-> NewMail(c, "in", 0, c)]
OneVerified == [h \in MCHosts |-> IF h = <<"t", "v">> THEN Registered(1, TRUE) ELSE Nowhere]
InUse(t, h, n) == [BoxOn(t, h) EXCEPT !.next = n + 1]
Inbox(bs, cs, page, slots, ops) ==
  [domains |-> OneVerified, boxes |-> bs, convs |-> cs, mails |-> Asked(Len(cs)), clock |-> Len(cs),
   limit |-> page, slots |-> slots, senders |-> {"good"}, posts |-> {<<1, 1>>}, ops |-> ops]
Unregistered(ops) == [Inbox(<<NoBox, NoBox>>, <<>>, 1, 2, ops) EXCEPT !.domains = [h \in MCHosts |-> Nowhere]]
First(n) == <<InUse(1, MCHostOf[1], n), BoxOn(2, <<>>)>>
Good(n) == Conv(1, n, "good")

MCMailEnvironments ==
  { Unregistered([NoMailOps EXCEPT !["domain"] = 3, !["drop"] = 1, !["fail"] = 1]),
    Unregistered([NoMailOps EXCEPT !["domain"] = 2, !["verify"] = 1, !["drop"] = 1, !["box"] = 1, !["fail"] = 1]),
    Unregistered([NoMailOps EXCEPT !["domain"] = 1, !["verify"] = 1, !["drop"] = 1, !["box"] = 2]),
    [Inbox(First(1), <<Good(1)>>, 1, 2, [NoMailOps EXCEPT !["write"] = 2, !["post"] = 3, !["fail"] = 1])
       EXCEPT !.posts = {<<1, 1>>, <<2, 2>>, <<1, 2>>}],
    Inbox(First(0), <<>>, 1, 2, [NoMailOps EXCEPT !["write"] = 3, !["post"] = 3]),
    Inbox(First(2), <<Good(1), Good(2)>>, 1, 2, [NoMailOps EXCEPT !["write"] = 1, !["post"] = 2]),
    Inbox(First(1), <<Good(1)>>, 1, 2, [NoMailOps EXCEPT !["write"] = 1, !["post"] = 2, !["reply"] = 1, !["patch"] = 1]),
    [Inbox(First(0), <<>>, 2, 1, [NoMailOps EXCEPT !["write"] = 1, !["post"] = 1, !["reply"] = 1, !["fault"] = 1])
       EXCEPT !.senders = Addresses],
    Inbox(First(3), <<Conv(1, 1, "refused"), Good(2), Conv(1, 3, "none")>>, 2, 1,
          [NoMailOps EXCEPT !["reply"] = 2, !["fault"] = 1]),
    Inbox(First(2), <<Conv(1, 1, "refused"), Good(2)>>, 1, 1, [NoMailOps EXCEPT !["reply"] = 2, !["lost"] = 1]),
    Inbox(<<InUse(1, MCHostOf[1], 1), InUse(1, <<>>, 1)>>, <<Good(1), Conv(2, 1, "good")>>, 1, 1,
          [NoMailOps EXCEPT !["reply"] = 2, !["lost"] = 1, !["fault"] = 1]),
    Inbox(<<InUse(1, MCHostOf[1], 1), InUse(1, <<>>, 1)>>, <<Good(1), Conv(2, 1, "good")>>, 1, 1,
          [NoMailOps EXCEPT !["reply"] = 1, !["fault"] = 2, !["fail"] = 1]) }

-----------------------------------------------------------------------------
(* The two of them.                                                        *)

FilesAtRest == Workspace(<<>>, Fresh(0), 0, {}, NoFileOps)
MailAtRest == [Inbox([b \in Boxes |-> NoBox], <<>>, 1, 0, NoMailOps) EXCEPT !.domains = [h \in MCHosts |-> Nowhere]]
BytesFiles == MCFileEnvironments \cup {FilesAtRest}
BytesMails == MCMailEnvironments \cup {MailAtRest}

BytesInit == FileInit /\ MailInit /\ (fenv = FilesAtRest <=> menv # MailAtRest)
BytesNext == (FileNext /\ UNCHANGED mailvars) \/ (MailNext /\ UNCHANGED fvars)
BytesSpec == BytesInit /\ [][BytesNext]_<<fvars, mailvars>> /\ FileFairness /\ MailFairness

\* Only the files, for MCFileStoreRefund.cfg.
MailResting == {MailAtRest}
=============================================================================
