SPECIFICATION Spec
CONSTANTS
  Chosen = {"rsag", "rsag3", "zero_copy", "fullmesh", "all_pairs", "packet", "nvls", "nvls_packet",
            "nvls_warp", "allgather", "allgather2", "bench1", "bench2", "bench3",
            "bench3_again", "bench4", "bench4_1", "bench5", "bench6", "nvls_block",
            "plan_read_reduce", "plan_reduce", "plan_pipeline", "plan_root", "plan_get",
            "plan_reuse", "plan_packet", "plan_port_packet", "plan_port",
            "plan_semaphore", "ping_pong", "bidir_memory", "bidir_port"}
INVARIANTS  NeverStuck ReadyForNextLaunch
CHECK_DEADLOCK FALSE
