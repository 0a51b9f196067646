------------------------------ MODULE MCConfig ------------------------------
(* Config for TLC: job names with and without separators.                  *)
EXTENDS Config

MCNames == {<<"etcd">>, <<"etcd", "_", "z1">>, <<"etcd", "-", "z1">>}
=============================================================================
