----------------------------- MODULE WebScreens -----------------------------
(* What the pages of the web client are made of, as far as the properties tell them apart: reads,
   requests whose answer is shown, and writes, requests that change something on the server. Of a
   write: where the permission that offers it is read (gate) and what keeps its button from being
   pressed again while it is on its way (lock). *)
EXTENDS ServiceCalls

Gates == {"captured",    \* useMemo with no dependencies: the codes of when the page appeared
          "live",        \* read again at every render
          "none"}
Locks == {"busy",        \* the buttons for it are disabled while a request is on its way
          "row",         \* one busy row id: pressing another row replaces it
          "cell",        \* each row has a busy state of its own
          "none"}

\* A way of performing an item: the codes the page asks for and the calls it makes.
Way(asks, calls) == [asks |-> asks, calls |-> calls]
Calls(calls) == {Way(NoCode, calls)}
Asking(asks, calls) == {Way(asks, calls)}
NoCalls == {}

Needs(way) == UNION {DemandOf(endpoint) : endpoint \in way.calls}

Read(ways) == [kind |-> "read", ways |-> ways]
Write(gate, lock, ways) == [kind |-> "write", gate |-> gate, lock |-> lock, ways |-> ways]

\* What a view offers: a button for an item, perhaps one the page disables while a request is
\* on its way, or a link to a page; each perhaps only to who holds the codes asked for.
Offer(item, asks, idle, to) == [item |-> item, asks |-> asks, idle |-> idle, to |-> to]
Button(item) == Offer({item}, NoCode, FALSE, "")
BusyButton(item) == Offer({item}, NoCode, TRUE, "")
GatedButton(asks, item) == Offer({item}, asks, FALSE, "")
Link(to) == Offer({}, NoCode, FALSE, to)
GatedLink(asks, to) == Offer({}, asks, FALSE, to)

View(shows, offers) == [shows |-> shows, offers |-> offers]
Screen(paths, views) == [paths |-> paths, views |-> views]
AnyPage == {"/"}
============================================================================
