--------------------------- MODULE MCReportHandler ---------------------------
(* Instances of ReportHandler for TLC. *)
EXTENDS ReportHandler

A(attr, to) == [attr |-> attr, to |-> to]

mQueries == { << A("pmin", 2) >>, << A("pmax", 3) >>, << A("pmin", 1), A("pmax", 4) >>,
              << A("pmin", 2), A("pmax", 2) >>, << A("pmin", 3), A("pmax", 2) >>,
              << A("gt", 3) >>, << A("lt", 2), A("gt", 4) >>, << A("st", 2) >> }
mNumbers == {0, 1, 5}
=============================================================================
