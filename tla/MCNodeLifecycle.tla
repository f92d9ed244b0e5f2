--------------------------- MODULE MCNodeLifecycle ---------------------------
(* Bootstrap data for NodeLifecycle: one kubeadm cloud-config and what can   *)
(* be different in it, one part at a time.                                   *)
EXTENDS NodeLifecycle

Base == [shell |-> FALSE, header |-> 1, len |-> 9000, gz |-> 4000, bootcmd |-> <<"mount">>, files |-> <<>>,
         users |-> <<>>, ntp |-> TRUE, runcmd |-> <<"pre", "kubeadm">>, providerID |-> "verda"]

Files(t) == [path: {"/p", "/q"}, text: {t}, encoding: {"", "gz+b64"}, valid: {TRUE}, append: BOOLEAN, owner: {"", "a"}]
OddFiles == {f \in [path: {"", "/p"}, text: {"s"}, encoding: {"b64", "gz", "zip"}, valid: BOOLEAN, append: {FALSE}, owner: {"root"}] :
               f.encoding = "gz" => f.valid}
Users(n) == [name: {n}, primaryGroup: {"", "a", "g"}, groups: {{}, {"sudo"}}, keys: BOOLEAN]
OddUsers == [name: {"", "a"}, primaryGroup: {""}, groups: {{"x"}}, keys: {TRUE}]

FileData == {[Base EXCEPT !.files = <<f, g>>] : f \in Files("s"), g \in Files("t")}
            \cup {[Base EXCEPT !.files = <<f>>] : f \in OddFiles}

AllData ==
    FileData \cup {[Base EXCEPT !.users = <<u, v>>] : u \in Users("a"), v \in Users("b")}
    \cup {[Base EXCEPT !.users = <<v, u>>] : u \in Users("a"), v \in Users("b")} \cup {[Base EXCEPT !.users = <<u>>] : u \in OddUsers}
    \cup {[Base EXCEPT !.shell = b, !.header = h, !.len = l, !.gz = z] :
             b \in BOOLEAN, h \in {0, 1, 3, 4}, l \in {24576, 24577, 49152, 49153}, z \in {36153, 36154}}
    \cup {[Base EXCEPT !.providerID = p] : p \in {"", "foreign"}}

LaterData == {[Base EXCEPT !.providerID = p] : p \in {"", "verda", "foreign"}}

=============================================================================
