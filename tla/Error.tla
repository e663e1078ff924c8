-------------------------------- MODULE Error --------------------------------
(* The error codes of src/Error.hpp and those of asio that reach a session. *)

Error == {"success", "unexpected_eof", "data_mismatch", "test_timeout",
          "unexpected_data", "user_interrupt", "program_termination",
          "unknown_signal"}

SystemError == {"operation_aborted", "eof", "connection_refused",
                "connection_reset", "broken_pipe", "not_connected",
                "network_unreachable"}

ErrorCode == Error \cup SystemError
=============================================================================
